---- MODULE Spec2Model ----
(***************************************************************************)
(* FileForge: the conversion core (fileforge/converters.py), the backend   *)
(* pipelines (fileforge/backend/converters/*.py) and the HTTP adapter      *)
(* (fileforge/backend/main.py, utils.py) as state machines.                *)
(*                                                                         *)
(* Paths are records [stem, ext]; ext is the suffix without its dot, in    *)
(* the case the caller wrote it.  The sample file system is fixed: what a  *)
(* path holds is given by FileState and Content below.  Third-party codecs *)
(* (Pillow, pypdf, pandas) are modelled by what the code relies on: a      *)
(* decode succeeds exactly on content of the right type.  The packages of  *)
(* install_requires (setup.py:40-48) are taken as installed; pdf2image is  *)
(* not among them and is an input of the calls that need it.               *)
(***************************************************************************)
EXTENDS Integers, Sequences, FiniteSets, TLC

VARIABLES
    batch_result,   \* BatchConversionResult: [results, statistics]
    last_result,    \* the ConversionResult the last single-file convert returned
    batch_pc,       \* batch_convert: "start", "loop", "done", "raised"
    batch_call,     \* batch_convert arguments: [conv, inputs, output_format]
    batch_idx,      \* batch_convert loop index (0-based, next input to convert)
    out_files,      \* files written so far by the core into the output directory
    call,           \* ConverterFactory.convert call: arguments and outcome
    file_registry,  \* backend main.py: file_id -> metadata of an upload or an output
    progress_registry, \* backend main.py: file_id -> ConversionProgress
    uploads,        \* UPLOAD_DIR: file_id -> what UPLOAD_DIR/<file_id> holds
    outputs,        \* OUTPUT_DIR: file_id -> what OUTPUT_DIR/<file_id> holds
    next_id,        \* generate_file_id: ids are fresh, modelled as a counter
    requests,       \* number of HTTP requests handled so far
    response,       \* the HTTP response of the last request
    pipe_call,      \* a direct call of a backend pipeline: arguments and outcome
    pdf_call,       \* a PDF text extraction: document, page range and output
    image_call,     \* an image conversion: pixels, target format and result
    data_call,      \* a data transformation: table, options and result
    now,            \* backend main.py: time.time(), in seconds
    registry_lock,  \* backend main.py: the thread inside "with registry_lock"
    convert_call,   \* backend main.py: a convert_file request under way
    sweep_call,     \* backend main.py: the cleanup_task thread
    gui_app         \* gui.py: FileForgeApp and its worker thread

coreVars == <<batch_result, last_result, batch_pc, batch_call, batch_idx, out_files, call>>

apiVars == <<file_registry, progress_registry, uploads, outputs, next_id, requests,
             response>>

callVars == <<pipe_call, pdf_call, image_call, data_call>>

serverVars == <<now, registry_lock, convert_call, sweep_call>>

guiVars == <<gui_app>>

vars == <<coreVars, apiVars, callVars, serverVars, guiVars>>

\* What a specification of one part leaves untouched.
outsideCore == <<apiVars, callVars, serverVars, guiVars>>

outsideApi == <<coreVars, callVars, serverVars, guiVars>>

outsidePipe == <<coreVars, apiVars, pdf_call, image_call, data_call, serverVars, guiVars>>

outsidePdf == <<coreVars, apiVars, pipe_call, image_call, data_call, serverVars, guiVars>>

outsideImage == <<coreVars, apiVars, pipe_call, pdf_call, data_call, serverVars, guiVars>>

outsideData == <<coreVars, apiVars, pipe_call, pdf_call, image_call, serverVars, guiVars>>

None == "None"

(* ------------------------------ bounds -------------------------------- *)
MaxResults == 3
MaxBatch == 2
MaxRequests == 3

\* The backend before any request: empty registries and directories.
EmptyMap == [i \in {} |-> 0]

NoResponse == [op |-> "none", file_id |-> 0, output_format |-> "", status |-> 0,
               detail |-> "", output_file_id |-> 0]

\* A part of the program that is not called.
Idle == [state |-> "idle"]

\* No request under way, the cleanup thread asleep, no window open.
ServerIdle ==
    /\ now = 0
    /\ registry_lock = "free"
    /\ convert_call = Idle
    /\ sweep_call = Idle

GuiIdle == gui_app = Idle

ApiIdle ==
    /\ file_registry = EmptyMap
    /\ progress_registry = EmptyMap
    /\ uploads = EmptyMap
    /\ outputs = EmptyMap
    /\ next_id = 1
    /\ requests = 0
    /\ response = NoResponse
    /\ ServerIdle
    /\ GuiIdle

PipeIdle == pipe_call = Idle

PdfIdle == pdf_call = Idle

ImageIdle == image_call = Idle

DataIdle == data_call = Idle

(* ------------------- converters.py: status, results ------------------- *)
SUCCESS == "success"
PARTIAL_SUCCESS == "partial_success"
FAILURE == "failure"
SKIPPED == "skipped"
ConversionStatus == {SUCCESS, PARTIAL_SUCCESS, FAILURE, SKIPPED}

\* duration_seconds is wall-clock time and is left out of the record.
ConversionStatistics(p, s, f, k, r, w) ==
    [files_processed |-> p, files_succeeded |-> s, files_failed |-> f,
     files_skipped |-> k, total_bytes_read |-> r, total_bytes_written |-> w]

DefaultStatistics == ConversionStatistics(0, 0, 0, 0, 0, 0)

ConversionResult(st, inp, outp, err, stats) ==
    [status |-> st, input_path |-> inp, output_path |-> outp,
     error_message |-> err, statistics |-> stats]

is_success(r) == r.status \in {SUCCESS, PARTIAL_SUCCESS}

NewBatchConversionResult == [results |-> <<>>, statistics |-> DefaultStatistics]

\* Variant of BatchStatus that looks for any success before looking for all.
BatchStatus_AnySuccessFirst(b) ==
    IF b.results = <<>> THEN SKIPPED
    ELSE LET successes == Cardinality({i \in DOMAIN b.results : is_success(b.results[i])})
         IN  IF successes > 0 THEN PARTIAL_SUCCESS
             ELSE IF successes = Len(b.results) THEN SUCCESS
             ELSE FAILURE

BatchStatus(b) ==
    IF b.results = <<>> THEN SKIPPED
    ELSE LET successes == Cardinality({i \in DOMAIN b.results : is_success(b.results[i])})
         IN  IF successes = Len(b.results) THEN SUCCESS
             ELSE IF successes > 0 THEN PARTIAL_SUCCESS
             ELSE FAILURE

\* Variant of update_statistics that counts every non-success as failed.
update_statistics_NonSuccessFailed(statistics, result) ==
    ConversionStatistics(
        statistics.files_processed + 1,
        statistics.files_succeeded + (IF is_success(result) THEN 1 ELSE 0),
        statistics.files_failed + (IF is_success(result) THEN 0 ELSE 1),
        statistics.files_skipped + (IF result.status = SKIPPED THEN 1 ELSE 0),
        statistics.total_bytes_read + result.statistics.total_bytes_read,
        statistics.total_bytes_written + result.statistics.total_bytes_written)

update_statistics(statistics, result) ==
    ConversionStatistics(
        statistics.files_processed + 1,
        statistics.files_succeeded + (IF is_success(result) THEN 1 ELSE 0),
        statistics.files_failed + (IF result.status = FAILURE THEN 1 ELSE 0),
        statistics.files_skipped + (IF result.status = SKIPPED THEN 1 ELSE 0),
        statistics.total_bytes_read + result.statistics.total_bytes_read,
        statistics.total_bytes_written + result.statistics.total_bytes_written)

add_result(b, result) ==
    [results |-> Append(b.results, result),
     statistics |-> update_statistics(b.statistics, result)]

(* ----------------------- the sample file system ----------------------- *)
Path(stem, ext) == [stem |-> stem, ext |-> ext]

\* str.lower() on the suffixes the samples use.
Lower(s) ==
    CASE s = "PNG" -> "png"
      [] s = "CSV" -> "csv"
      [] OTHER -> s

\* "gone" does not exist, "dir" is a directory, "bad" holds undecodable bytes.
FileState(p) ==
    CASE p.stem = "gone" -> "missing"
      [] p.stem = "dir" -> "dir"
      [] p.stem = "bad" -> "corrupt"
      [] OTHER -> "ok"

\* What the bytes of an existing file decode as.
Content(p) ==
    IF FileState(p) # "ok" THEN "garbage"
    ELSE CASE Lower(p.ext) \in {"png", "jpg", "jpeg", "webp", "bmp", "gif"} -> "image"
           [] Lower(p.ext) = "pdf" -> "pdf"
           [] Lower(p.ext) = "csv" -> "csv"
           [] Lower(p.ext) = "json" -> "json"
           [] Lower(p.ext) \in {"xlsx", "xls"} -> "excel"
           [] OTHER -> "garbage"

\* _get_file_size: the stat size, 0 when the file cannot be stat'ed.
get_file_size(p) ==
    CASE FileState(p) = "missing" -> 0
      [] p.stem = "a" -> 3
      [] OTHER -> 5

\* Size of the encoded output: decided by the codec, positive.
EncodedSize(inp, fmt) == IF fmt \in {"jpg", "jpeg", "webp"} THEN 2 ELSE get_file_size(inp) + 1

(* --------------------- converters.py: outcomes ------------------------ *)
NoPath == Path("", "")
NoResult == ConversionResult("none", NoPath, NoPath, "", DefaultStatistics)
NoException == [type |-> "", message |-> ""]

\* A call either returns a ConversionResult or lets an exception escape;
\* files are the output files it wrote before it ended.
Returned(result, files) ==
    [kind |-> "return", result |-> result, exc |-> NoException, files |-> files]

Raised(type, message) ==
    [kind |-> "raise", result |-> NoResult,
     exc |-> [type |-> type, message |-> message], files |-> {}]

NoOutcome == [kind |-> "none", result |-> NoResult, exc |-> NoException, files |-> {}]

Succeeded(inp, outp, written) ==
    Returned(ConversionResult(SUCCESS, inp, outp, "",
                 ConversionStatistics(1, 1, 0, 0, get_file_size(inp), written)),
             {outp})

Failed(inp, message) ==
    Returned(ConversionResult(FAILURE, inp, NoPath, message,
                 ConversionStatistics(1, 0, 1, 0, 0, 0)),
             {})

\* _validate_input_file: "" when the input passes, else the message raised.
validate_input_file(inp) ==
    CASE FileState(inp) = "missing" -> "File not found"
      [] FileState(inp) = "dir" -> "Path is not a file"
      [] OTHER -> ""

(* --------------------- converters.py: ImageConverter ------------------ *)
ImageFormat == {"png", "jpg", "jpeg", "webp", "bmp", "gif"}

\* ImageFormat.get_extension: JPEG is written as .jpg.
ImageFormat_get_extension(fmt) == IF fmt = "jpeg" THEN "jpg" ELSE fmt

\* ImageConverter.convert with default options; output_format None means
\* "infer from the output path".  There is no same-format check.
ImageConverter_convert(inp, outp, output_format) ==
    IF validate_input_file(inp) # "" THEN Failed(inp, validate_input_file(inp))
    ELSE IF output_format = None /\ Lower(outp.ext) \notin ImageFormat
         THEN Raised("UnsupportedFormatError", "Unsupported format")
    ELSE LET fmt == IF output_format = None THEN Lower(outp.ext) ELSE output_format
         IN  IF Content(inp) # "image" THEN Failed(inp, "cannot identify image file")
             ELSE Succeeded(inp, outp, EncodedSize(inp, fmt))

(* -------------------- converters.py: DocumentConverter ---------------- *)
\* pdf_to_text with default options: every exception becomes a Failure.
pdf_to_text_outcome(inp, outp) ==
    IF validate_input_file(inp) # "" THEN Failed(inp, validate_input_file(inp))
    ELSE IF Content(inp) # "pdf" THEN Failed(inp, "cannot read PDF")
    ELSE Succeeded(inp, outp, get_file_size(inp))

\* pdf_to_images: _ensure_pdf2image raises outside the try, and the handler
\* re-raises every ConversionError, of which FileNotFoundError and
\* InvalidInputError are subclasses.
pdf_to_images_outcome(inp, output_dir, pdf2image_available) ==
    IF ~pdf2image_available
    THEN Raised("ConversionError", "pdf2image library is required")
    ELSE IF FileState(inp) = "missing" THEN Raised("FileNotFoundError", "File not found")
    ELSE IF FileState(inp) = "dir" THEN Raised("InvalidInputError", "Path is not a file")
    ELSE IF Content(inp) # "pdf" THEN Failed(inp, "cannot read PDF")
    ELSE Succeeded(inp, output_dir, get_file_size(inp))

(* ---------------------- converters.py: DataConverter ------------------ *)
DataFormat == {"csv", "json", "xlsx"}

\* DataFormat.from_extension: "" stands for the UnsupportedFormatError raised.
DataFormat_from_extension(ext) ==
    CASE Lower(ext) = "csv" -> "csv"
      [] Lower(ext) = "json" -> "json"
      [] Lower(ext) \in {"xlsx", "xls"} -> "xlsx"
      [] OTHER -> ""

\* What a data reader of converters.py needs the bytes to be.
ReaderContent(fmt) == IF fmt = "xlsx" THEN "excel" ELSE fmt

\* csv_to_json, json_to_csv, ...: one body, every exception becomes a Failure.
converter_func(inp, outp, input_format) ==
    IF validate_input_file(inp) # "" THEN Failed(inp, validate_input_file(inp))
    ELSE IF Content(inp) # ReaderContent(input_format) THEN Failed(inp, "cannot parse input")
    ELSE Succeeded(inp, outp, get_file_size(inp) + 1)

\* DataConverter.convert: the format lookups and the routing run outside any try.
DataConverter_convert(inp, outp, output_format) ==
    LET input_format == DataFormat_from_extension(inp.ext)
        out_fmt == IF output_format = None THEN DataFormat_from_extension(outp.ext)
                   ELSE output_format
    IN  IF input_format = "" \/ out_fmt = ""
        THEN Raised("UnsupportedFormatError", "Unsupported format")
        ELSE IF input_format = out_fmt
        THEN Raised("ConversionError", "Source and target formats are the same")
        ELSE converter_func(inp, outp, input_format)

(* --------------------- converters.py: ConverterFactory ---------------- *)
get_format_category(p) ==
    CASE Lower(p.ext) \in ImageFormat -> "image"
      [] Lower(p.ext) = "pdf" -> "document"
      [] Lower(p.ext) \in {"csv", "json", "xlsx", "xls"} -> "data"
      [] OTHER -> None

ConverterFactory_convert(inp, outp, pdf2image_available) ==
    LET category == get_format_category(inp)
    IN  CASE category = "image" -> ImageConverter_convert(inp, outp, None)
          [] category = "document" ->
                IF Lower(outp.ext) = "txt" THEN pdf_to_text_outcome(inp, outp)
                ELSE IF Lower(outp.ext) \in {"png", "jpg", "jpeg", "webp"}
                THEN pdf_to_images_outcome(inp, Path(outp.stem, ""), pdf2image_available)
                ELSE Raised("UnsupportedFormatError", "Unsupported format")
          [] category = "data" -> DataConverter_convert(inp, outp, None)
          [] OTHER -> Raised("UnsupportedFormatError", "Unsupported format")


(* ------------- converters.py: batch_convert (image and data) ---------- *)
SampleInputs ==
    {Path("a", "png"), Path("a", "gif"), Path("bad", "png"), Path("gone", "jpg"),
     Path("a", "csv"), Path("b", "json"), Path("a", "txt")}

InputLists == UNION {[1..n -> SampleInputs] : n \in 0..MaxBatch}

BatchCalls ==
    [conv : {"image"}, inputs : InputLists, output_format : {"jpg", "png"}]
    \cup [conv : {"data"}, inputs : InputLists, output_format : {"csv", "json"}]

NoBatchCall == [conv |-> "none", inputs |-> <<>>, output_format |-> ""]
NoCall == [input |-> NoPath, output |-> NoPath, pdf2image_available |-> FALSE,
           outcome |-> NoOutcome]

\* The output path batch_convert builds: output_dir / (stem + extension).
BatchOutputPath(conv, inp, output_format) ==
    IF conv = "image" THEN Path(inp.stem, ImageFormat_get_extension(output_format))
    ELSE Path(inp.stem, output_format)

\* The single-file convert a batch calls, with the explicit output format.
BatchConvertOne(conv, inp, output_format) ==
    IF conv = "image"
    THEN ImageConverter_convert(inp, BatchOutputPath(conv, inp, output_format), output_format)
    ELSE DataConverter_convert(inp, BatchOutputPath(conv, inp, output_format), output_format)

InitBatch ==
    /\ ApiIdle /\ PipeIdle /\ PdfIdle /\ ImageIdle /\ DataIdle
    /\ batch_call \in BatchCalls
    /\ batch_pc = "start"
    /\ batch_idx = 0
    /\ batch_result = NewBatchConversionResult
    /\ last_result = NoResult
    /\ out_files = {}
    /\ call = NoCall

\* The core library when the backend runs: nothing called.
CoreIdle ==
    /\ call = NoCall
    /\ batch_result = NewBatchConversionResult
    /\ last_result = NoResult
    /\ batch_pc = "idle"
    /\ batch_call = NoBatchCall
    /\ batch_idx = 0
    /\ out_files = {}

\* total_files == 0 returns the empty batch at once; else the loop starts.
BatchStart ==
    /\ batch_pc = "start"
    /\ batch_pc' = IF Len(batch_call.inputs) = 0 THEN "done" ELSE "loop"
    /\ UNCHANGED <<batch_result, last_result, batch_call, batch_idx, out_files, call>>
    /\ UNCHANGED outsideCore

\* One loop iteration: convert input idx, then add_result.  An exception
\* that escapes convert escapes batch_convert: nothing in the loop catches it.
BatchIter ==
    /\ batch_pc = "loop"
    /\ batch_idx < Len(batch_call.inputs)
    /\ LET o == BatchConvertOne(batch_call.conv, batch_call.inputs[batch_idx + 1],
                                batch_call.output_format)
       IN  IF o.kind = "raise"
           THEN /\ batch_pc' = "raised"
                /\ UNCHANGED <<batch_result, last_result, batch_idx, out_files>>
           ELSE /\ batch_result' = add_result(batch_result, o.result)
                /\ last_result' = o.result
                /\ out_files' = out_files \cup o.files
                /\ batch_idx' = batch_idx + 1
                /\ UNCHANGED batch_pc
    /\ UNCHANGED <<batch_call, call>>
    /\ UNCHANGED outsideCore

BatchFinish ==
    /\ batch_pc = "loop"
    /\ batch_idx = Len(batch_call.inputs)
    /\ batch_pc' = "done"
    /\ UNCHANGED <<batch_result, last_result, batch_call, batch_idx, out_files, call>>
    /\ UNCHANGED outsideCore

NextBatch == BatchStart \/ BatchIter \/ BatchFinish

SpecBatch == InitBatch /\ [][NextBatch]_vars

(* -------- converters.py: BatchConversionResult used by a caller ------- *)
\* Results a caller may add that no converter of this module produced.
ForeignResults ==
    {ConversionResult(st, Path("x", "bin"), NoPath, "",
                      ConversionStatistics(1, 0, 0, 0, b[1], b[2])) :
        st \in ConversionStatus, b \in {<<0, 0>>, <<2, 1>>}}

AggregateInputs == {Path("a", "png"), Path("bad", "png"), Path("a", "csv"), Path("gone", "json")}

InitAggregate ==
    /\ ApiIdle /\ PipeIdle /\ PdfIdle /\ ImageIdle /\ DataIdle
    /\ batch_result = NewBatchConversionResult
    /\ last_result = NoResult
    /\ batch_pc = "idle"
    /\ batch_call = NoBatchCall
    /\ batch_idx = 0
    /\ out_files = {}
    /\ call = NoCall

\* A single-file convert whose result the caller adds to the batch result.
AddConverted ==
    /\ Len(batch_result.results) < MaxResults
    /\ \E conv \in {"image", "data"}, inp \in AggregateInputs, fmt \in {"jpg", "json"} :
          LET o == BatchConvertOne(conv, inp, fmt)
          IN  /\ o.kind = "return"
              /\ last_result' = o.result
              /\ batch_result' = add_result(batch_result, o.result)
    /\ UNCHANGED <<batch_pc, batch_call, batch_idx, out_files, call>>
    /\ UNCHANGED outsideCore

AddForeign ==
    /\ Len(batch_result.results) < MaxResults
    /\ \E r \in ForeignResults : batch_result' = add_result(batch_result, r)
    /\ UNCHANGED <<last_result, batch_pc, batch_call, batch_idx, out_files, call>>
    /\ UNCHANGED outsideCore

NextAggregate == AddConverted \/ AddForeign

SpecAggregate == InitAggregate /\ [][NextAggregate]_vars

(* ------------- converters.py: ConverterFactory.convert calls ---------- *)
FactoryInputs ==
    {Path(st, e) : st \in {"a", "gone", "bad"},
                   e \in {"png", "PNG", "jpg", "pdf", "csv", "json", "xlsx", "txt"}}

FactoryOutputs ==
    {Path(st, e) : st \in {"a", "out"},
                   e \in {"png", "jpg", "bmp", "txt", "pdf", "csv", "json", "xlsx", "zip"}}

\* The caller's arguments and whether the optional pdf2image package is there.
InitFactory ==
    /\ ApiIdle /\ PipeIdle /\ PdfIdle /\ ImageIdle /\ DataIdle
    /\ \E inp \in FactoryInputs, outp \in FactoryOutputs, available \in BOOLEAN :
          call = [input |-> inp, output |-> outp, pdf2image_available |-> available,
                  outcome |-> NoOutcome]
    /\ batch_result = NewBatchConversionResult
    /\ last_result = NoResult
    /\ batch_pc = "idle"
    /\ batch_call = NoBatchCall
    /\ batch_idx = 0
    /\ out_files = {}

FactoryConvert ==
    /\ call.outcome = NoOutcome
    /\ LET o == ConverterFactory_convert(call.input, call.output, call.pdf2image_available)
       IN  /\ call' = [call EXCEPT !.outcome = o]
           /\ last_result' = o.result
           /\ out_files' = o.files
    /\ UNCHANGED <<batch_result, batch_pc, batch_call, batch_idx>>
    /\ UNCHANGED outsideCore

NextFactory == FactoryConvert

SpecFactory == InitFactory /\ [][NextFactory]_vars

(* ============================ HTTP backend ============================ *)
(* --------------------------- backend/utils.py ------------------------- *)
IMAGE == "image"
DOCUMENT == "document"
DATA == "data"
UNKNOWN == "unknown"

\* Keys are extensions without the dot.
EXTENSION_TO_CATEGORY ==
    [e \in {"png", "jpg", "jpeg", "webp", "bmp", "gif", "pdf", "txt",
            "csv", "json", "xlsx", "xls"} |->
        IF e \in {"png", "jpg", "jpeg", "webp", "bmp", "gif"} THEN IMAGE
        ELSE IF e \in {"pdf", "txt"} THEN DOCUMENT
        ELSE DATA]

FORMAT_COMPATIBILITY ==
    [f \in {"png", "jpg", "jpeg", "webp", "bmp", "gif", "pdf", "csv", "json", "xlsx", "xls"} |->
        CASE f = "png" -> {"jpg", "jpeg", "webp", "bmp", "gif"}
          [] f \in {"jpg", "jpeg"} -> {"png", "webp", "bmp", "gif"}
          [] f = "webp" -> {"png", "jpg", "jpeg", "bmp", "gif"}
          [] f = "bmp" -> {"png", "jpg", "jpeg", "webp", "gif"}
          [] f = "gif" -> {"png", "jpg", "jpeg", "webp", "bmp"}
          [] f = "pdf" -> {"txt", "png", "jpg"}
          [] f = "csv" -> {"json", "xlsx"}
          [] f = "json" -> {"csv", "xlsx"}
          [] f \in {"xlsx", "xls"} -> {"csv", "json"}]

\* Values are extensions without the dot.
MIME_TO_EXTENSION ==
    [m \in {"image/png", "image/jpeg", "image/webp", "image/bmp", "image/gif",
            "application/pdf", "text/plain", "text/csv", "application/json",
            "application/vnd.openxmlformats-officedocument.spreadsheetml.sheet",
            "application/vnd.ms-excel"} |->
        CASE m = "image/png" -> "png"
          [] m = "image/jpeg" -> "jpg"
          [] m = "image/webp" -> "webp"
          [] m = "image/bmp" -> "bmp"
          [] m = "image/gif" -> "gif"
          [] m = "application/pdf" -> "pdf"
          [] m = "text/plain" -> "txt"
          [] m = "text/csv" -> "csv"
          [] m = "application/json" -> "json"
          [] m = "application/vnd.openxmlformats-officedocument.spreadsheetml.sheet" -> "xlsx"
          [] m = "application/vnd.ms-excel" -> "xls"]

\* mimetypes.guess_type on the extensions of the sample names; None when the
\* standard table has no entry.
guess_type(p) ==
    CASE Lower(p.ext) = "png" -> "image/png"
      [] Lower(p.ext) \in {"jpg", "jpeg", "jpe"} -> "image/jpeg"
      [] Lower(p.ext) = "pdf" -> "application/pdf"
      [] Lower(p.ext) = "txt" -> "text/plain"
      [] Lower(p.ext) = "csv" -> "text/csv"
      [] Lower(p.ext) = "json" -> "application/json"
      [] Lower(p.ext) \in {"xls", "xlb"} -> "application/vnd.ms-excel"
      [] Lower(p.ext) = "exe" -> "application/octet-stream"
      [] OTHER -> None

detect_file_type(file_path) ==
    LET extension == Lower(file_path.ext)
        mime_type == guess_type(file_path)
    IN  IF extension \in DOMAIN EXTENSION_TO_CATEGORY
        THEN [format |-> extension, category |-> EXTENSION_TO_CATEGORY[extension]]
        ELSE IF mime_type \in DOMAIN MIME_TO_EXTENSION
        THEN LET ext == MIME_TO_EXTENSION[mime_type]
             IN  [format |-> ext,
                  category |-> IF ext \in DOMAIN EXTENSION_TO_CATEGORY
                               THEN EXTENSION_TO_CATEGORY[ext] ELSE UNKNOWN]
        ELSE [format |-> IF extension # "" THEN extension ELSE "unknown",
              category |-> UNKNOWN]

get_compatible_formats(input_format) ==
    IF Lower(input_format) \in DOMAIN FORMAT_COMPATIBILITY
    THEN FORMAT_COMPATIBILITY[Lower(input_format)]
    ELSE {}

validate_conversion(input_format, output_format) ==
    Lower(output_format) \in get_compatible_formats(input_format)

\* The sample names hold no separator, NUL or outer blank, so only the
\* stripping of outer dots and the empty-name fallback can change them.
get_safe_filename(original_filename) ==
    IF original_filename.ext = "" /\ original_filename.stem \in {"", ".", ".."}
    THEN Path("unnamed_file", "")
    ELSE original_filename

\* ConversionProgress(file_id): the fields a poll returns.
ConversionProgress ==
    [status |-> "pending", progress |-> 0, message |-> "Waiting to start",
     error |-> None, output_file_id |-> 0]

Min(a, b) == IF a < b THEN a ELSE b

Max(a, b) == IF a > b THEN a ELSE b

\* Variant of update that stores the reported percentage as it comes.
update_NoClamp(p, changes) ==
    [status |-> IF "status" \in DOMAIN changes THEN changes.status ELSE p.status,
     progress |-> IF "progress" \in DOMAIN changes THEN changes.progress ELSE p.progress,
     message |-> IF "message" \in DOMAIN changes THEN changes.message ELSE p.message,
     error |-> IF "error" \in DOMAIN changes THEN changes.error ELSE p.error,
     output_file_id |-> IF "output_file_id" \in DOMAIN changes
                        THEN changes.output_file_id ELSE p.output_file_id]

\* ConversionProgress.update: changes is a record of the keyword arguments
\* given; a field not given keeps its value.
update(p, changes) ==
    [status |-> IF "status" \in DOMAIN changes THEN changes.status ELSE p.status,
     progress |-> IF "progress" \in DOMAIN changes
                  THEN Min(100, Max(0, changes.progress)) ELSE p.progress,
     message |-> IF "message" \in DOMAIN changes THEN changes.message ELSE p.message,
     error |-> IF "error" \in DOMAIN changes THEN changes.error ELSE p.error,
     output_file_id |-> IF "output_file_id" \in DOMAIN changes
                        THEN changes.output_file_id ELSE p.output_file_id]

(* ------------------------ files on the server ------------------------- *)
\* What a file holds, as far as the pipelines look: its byte size, and what
\* Pillow, pypdf or pandas find when they open it.
NoContent ==
    [kind |-> "none", size |-> 0, width |-> 0, height |-> 0, pages |-> 0, images |-> 0,
     text_size |-> 0, rows |-> 0, columns |-> 0]

ImageContent(w, h) == [NoContent EXCEPT !.kind = "image", !.size = 1, !.width = w, !.height = h]

PdfContent(n, imgs, text) ==
    [NoContent EXCEPT !.kind = "pdf", !.size = 1, !.pages = n, !.images = imgs,
                      !.text_size = text]

TableContent(bytes, r, c) ==
    [NoContent EXCEPT !.kind = "table", !.size = bytes, !.rows = r, !.columns = c]

TextContent(bytes) == [NoContent EXCEPT !.kind = "text", !.size = bytes]

Garbage(bytes) == [NoContent EXCEPT !.kind = "garbage", !.size = bytes]

\* A path as a pipeline sees it: the file or directory there, or nothing.
File(path, content) ==
    [path |-> path, exists |-> TRUE, is_dir |-> FALSE, entries |-> 0, content |-> content]

Directory(path, entries) ==
    [path |-> path, exists |-> TRUE, is_dir |-> TRUE, entries |-> entries,
     content |-> NoContent]

Missing(path) ==
    [path |-> path, exists |-> FALSE, is_dir |-> FALSE, entries |-> 0, content |-> NoContent]

MB == 1024 * 1024

\* A pipeline call ends by returning a path or by raising; made is what the
\* call created on disk by then.
PipelineReturn(result) ==
    [kind |-> "return", exc |-> "", message |-> "", result |-> result, made |-> {result}]

PipelineRaise(exc, message, made) ==
    [kind |-> "raise", exc |-> exc, message |-> message, result |-> Missing(NoPath),
     made |-> made]

\* The options dict, as far as this part of the model passes it on.
NoOptions == [resize |-> <<>>]

(* -------------------- backend/converters/image.py --------------------- *)
IMAGE_SUPPORTED_OUTPUT_FORMATS == {"png", "jpg", "jpeg", "webp", "bmp", "gif"}

MAX_DIMENSION == 10000

\* Variant of load_image that loads the image whatever its dimensions.
load_image_NoDimensionCheck(inp) ==
    IF inp.is_dir \/ inp.content.kind # "image" THEN "Invalid or corrupted image file"
    ELSE ""

\* _load_image: "" when the image loads, else the message of the error.
load_image(inp) ==
    IF inp.is_dir \/ inp.content.kind # "image" THEN "Invalid or corrupted image file"
    ELSE IF inp.content.width > MAX_DIMENSION \/ inp.content.height > MAX_DIMENSION
    THEN "Conversion failed: Image dimensions exceed maximum"
    ELSE ""

\* _resize_image: "" when the dimensions are accepted.
resize_image(dimensions) ==
    IF dimensions[1] <= 0 \/ dimensions[2] <= 0
    THEN "Conversion failed: Resize dimensions must be positive"
    ELSE IF dimensions[1] > MAX_DIMENSION \/ dimensions[2] > MAX_DIMENSION
    THEN "Conversion failed: Resize dimensions exceed maximum"
    ELSE ""

backend_ImageConverter_convert(inp, output_path, output_format, options) ==
    IF Lower(output_format) \notin IMAGE_SUPPORTED_OUTPUT_FORMATS
    THEN PipelineRaise("ValueError", "Unsupported output format", {})
    ELSE IF ~inp.exists
    THEN PipelineRaise("ImageConversionError", "Input file not found", {})
    ELSE IF load_image(inp) # ""
    THEN PipelineRaise("ImageConversionError", load_image(inp), {})
    ELSE IF options.resize # <<>> /\ resize_image(options.resize) # ""
    THEN PipelineRaise("ImageConversionError", resize_image(options.resize), {})
    ELSE PipelineReturn(File(output_path,
            IF options.resize # <<>>
            THEN ImageContent(options.resize[1], options.resize[2])
            ELSE ImageContent(inp.content.width, inp.content.height)))

(* ------------------- backend/converters/document.py ------------------- *)
DOCUMENT_SUPPORTED_INPUT_FORMATS == {"pdf"}

DOCUMENT_SUPPORTED_OUTPUT_FORMATS == {"txt", "png", "jpg"}

MAX_PDF_PAGES == 500

MAX_TEXT_SIZE_MB == 50

\* The handler table of DocumentConverter.__init__.
format_handlers ==
    [g \in {"txt", "png", "jpg", "jpeg"} |-> IF g = "txt" THEN "text" ELSE "images"]

convert_pdf_to_text(inp, output_path) ==
    IF inp.is_dir \/ inp.content.kind # "pdf"
    THEN PipelineRaise("DocumentConversionError", "Failed to extract text from PDF", {})
    ELSE IF inp.content.pages > MAX_PDF_PAGES
    THEN PipelineRaise("DocumentConversionError", "PDF exceeds maximum pages", {})
    ELSE IF inp.content.text_size > MAX_TEXT_SIZE_MB * MB
    THEN PipelineRaise("DocumentConversionError", "Extracted text size exceeds maximum", {})
    ELSE PipelineReturn(File(IF Lower(output_path.ext) # "txt"
                             THEN Path(output_path.stem, "txt") ELSE output_path,
                             TextContent(inp.content.text_size)))

\* The page-count cap comes before the mkdir of <stem>_pages; with no
\* embedded image the directory gets the one placeholder file.
convert_pdf_to_images(inp, output_path) ==
    IF inp.is_dir \/ inp.content.kind # "pdf"
    THEN PipelineRaise("DocumentConversionError", "Failed to convert PDF to images", {})
    ELSE IF inp.content.pages > MAX_PDF_PAGES
    THEN PipelineRaise("DocumentConversionError", "PDF exceeds maximum pages", {})
    ELSE PipelineReturn(Directory(Path(output_path.stem \o "_pages", ""),
                                  IF inp.content.images = 0 THEN 1 ELSE inp.content.images))

backend_DocumentConverter_convert(inp, output_path, output_format, options) ==
    IF Lower(output_format) \notin DOCUMENT_SUPPORTED_OUTPUT_FORMATS
    THEN PipelineRaise("ValueError", "Unsupported output format", {})
    ELSE IF ~inp.exists
    THEN PipelineRaise("DocumentConversionError", "Input file not found", {})
    ELSE IF Lower(inp.path.ext) \notin DOCUMENT_SUPPORTED_INPUT_FORMATS
    THEN PipelineRaise("DocumentConversionError", "Unsupported input format", {})
    ELSE IF Lower(output_format) \notin DOMAIN format_handlers
    THEN PipelineRaise("DocumentConversionError", "Conversion failed: No handler for format", {})
    ELSE IF format_handlers[Lower(output_format)] = "text"
    THEN convert_pdf_to_text(inp, output_path)
    ELSE convert_pdf_to_images(inp, output_path)

(* --------------------- backend/converters/data.py --------------------- *)
DATA_SUPPORTED_INPUT_FORMATS == {"csv", "json", "xlsx", "xls"}

DATA_SUPPORTED_OUTPUT_FORMATS == {"csv", "json", "xlsx"}

MAX_ROWS == 1000000

MAX_COLUMNS == 1000

MAX_FILE_SIZE_MB == 100

\* _validate_dataframe: "" when the table is within the limits.
validate_dataframe(content) ==
    IF content.rows > MAX_ROWS THEN "Data rows exceed maximum"
    ELSE IF content.columns > MAX_COLUMNS THEN "Data columns exceed maximum"
    ELSE ""

\* With no transformation option set _apply_transformations returns the
\* table as read.
backend_DataConverter_convert(inp, output_path, output_format, options) ==
    IF Lower(inp.path.ext) \notin DATA_SUPPORTED_INPUT_FORMATS
    THEN PipelineRaise("ValueError", "Unsupported input format", {})
    ELSE IF Lower(output_format) \notin DATA_SUPPORTED_OUTPUT_FORMATS
    THEN PipelineRaise("ValueError", "Unsupported output format", {})
    ELSE IF ~inp.exists
    THEN PipelineRaise("DataConversionError", "Input file not found", {})
    ELSE IF inp.content.size > MAX_FILE_SIZE_MB * MB
    THEN PipelineRaise("DataConversionError", "File size exceeds maximum", {})
    ELSE IF inp.is_dir \/ inp.content.kind # "table"
    THEN PipelineRaise("DataConversionError", "Failed to parse input file", {})
    ELSE IF validate_dataframe(inp.content) # ""
    THEN PipelineRaise("DataConversionError", validate_dataframe(inp.content), {})
    ELSE PipelineReturn(File(IF Lower(output_path.ext) # Lower(output_format)
                             THEN Path(output_path.stem, Lower(output_format))
                             ELSE output_path,
                             TableContent(1, inp.content.rows, inp.content.columns)))

(* --------------------------- backend/main.py -------------------------- *)
MAX_UPLOAD_SIZE_MB == 100

HttpResponse(op, file_id, output_format, status, detail, output_file_id) ==
    [op |-> op, file_id |-> file_id, output_format |-> output_format, status |-> status,
     detail |-> detail, output_file_id |-> output_file_id]

\* A file_registry entry; source_file_id is 0 for an upload.
RegistryEntry(filename, path, format, category, source_file_id, is_directory) ==
    [filename |-> filename, path |-> path, format |-> format, category |-> category,
     source_file_id |-> source_file_id, is_directory |-> is_directory]

\* UPLOAD_DIR/<id>/<name> and OUTPUT_DIR/<id>/<name>.
ServerPath(root, id, name) == [root |-> root, id |-> id, name |-> name]

\* A request directory that exists and holds nothing.
EmptyDir == Missing(NoPath)

\* What is at a server path now.
AtPath(p) ==
    LET d == IF p.root = "uploads" THEN uploads ELSE outputs
    IN  IF p.id \in DOMAIN d /\ d[p.id].exists /\ d[p.id].path = p.name
        THEN d[p.id] ELSE Missing(p.name)

\* The multipart uploads a client sends: a name (NoPath: none given) and the
\* bytes.
UploadSamples ==
    {[filename |-> Path("a", "png"), content |-> ImageContent(2, 2)],
     [filename |-> Path("a", "PNG"), content |-> Garbage(1)],
     [filename |-> Path("a", "jpe"), content |-> ImageContent(2, 2)],
     [filename |-> Path("a", "pdf"), content |-> PdfContent(3, 0, 1)],
     [filename |-> Path("a", "txt"), content |-> TextContent(1)],
     [filename |-> Path("a", "csv"), content |-> TableContent(1, 1, 1)],
     [filename |-> Path("a", "xlb"), content |-> TableContent(1, 1, 1)],
     [filename |-> Path("a", "exe"), content |-> Garbage(1)],
     [filename |-> Path(".", ""), content |-> Garbage(1)],
     [filename |-> Path("a", "png"), content |-> Garbage(0)],
     [filename |-> Path("a", "csv"), content |-> Garbage(MAX_UPLOAD_SIZE_MB * MB + 1)],
     [filename |-> NoPath, content |-> Garbage(1)]}

\* The output formats a client asks for.
RequestedFormats == {"png", "PNG", "jpg", "webp", "txt", "pdf", "csv", "json", "xlsx"}

\* upload_file.  The upload directory is made before the size checks, and
\* only the unknown-type rejection removes it again.
UploadFile ==
    /\ requests < MaxRequests
    /\ requests' = requests + 1
    /\ \E file \in UploadSamples :
          IF file.filename = NoPath
          THEN /\ response' = HttpResponse("upload", 0, "", 400, "No filename provided", 0)
               /\ UNCHANGED <<file_registry, uploads, next_id>>
          ELSE LET safe_filename == get_safe_filename(file.filename)
                   file_id == next_id
                   file_size == file.content.size
                   detected == detect_file_type(safe_filename)
               IN  /\ next_id' = next_id + 1
                   /\ IF file_size > MAX_UPLOAD_SIZE_MB * MB
                      THEN /\ response' = HttpResponse("upload", 0, "", 413,
                                                       "File size exceeds maximum", 0)
                           /\ uploads' = (file_id :> EmptyDir) @@ uploads
                           /\ UNCHANGED file_registry
                      ELSE IF file_size = 0
                      THEN /\ response' = HttpResponse("upload", 0, "", 400,
                                                       "Empty file uploaded", 0)
                           /\ uploads' = (file_id :> EmptyDir) @@ uploads
                           /\ UNCHANGED file_registry
                      ELSE IF detected.category = UNKNOWN
                      THEN /\ response' = HttpResponse("upload", 0, "", 400,
                                                       "Unsupported file type", 0)
                           /\ UNCHANGED <<file_registry, uploads>>
                      ELSE /\ uploads' = (file_id :> File(safe_filename, file.content)) @@ uploads
                           /\ file_registry' =
                                 (file_id :> RegistryEntry(safe_filename,
                                                ServerPath("uploads", file_id, safe_filename),
                                                detected.format, detected.category, 0, FALSE))
                                 @@ file_registry
                           /\ response' = HttpResponse("upload", file_id, "", 200, "", 0)
    /\ UNCHANGED <<progress_registry, outputs>>
    /\ UNCHANGED outsideApi

\* The converter convert_file selects by the stored category.
SelectedConverterConvert(category, inp, output_path, output_format, options) ==
    IF category = IMAGE
    THEN backend_ImageConverter_convert(inp, output_path, output_format, options)
    ELSE IF category = DOCUMENT
    THEN backend_DocumentConverter_convert(inp, output_path, output_format, options)
    ELSE IF category = DATA
    THEN backend_DataConverter_convert(inp, output_path, output_format, options)
    ELSE PipelineRaise("HTTPException", "Unsupported file category", {})

\* What OUTPUT_DIR/<id> holds after the pipeline call.
OutputDirAfter(o) == IF o.made = {} THEN EmptyDir ELSE CHOOSE m \in o.made : TRUE

\* convert_file, for any file id a client may send and any output format.
ConvertFile ==
    /\ requests < MaxRequests
    /\ requests' = requests + 1
    /\ \E file_id \in 1..MaxRequests, requested \in RequestedFormats :
          LET output_format == Lower(requested)
              Reply(status, detail, out_id) ==
                  HttpResponse("convert", file_id, output_format, status, detail, out_id)
          IN  IF file_id \notin DOMAIN file_registry
              THEN /\ response' = Reply(404, "File not found", 0)
                   /\ UNCHANGED <<file_registry, progress_registry, outputs, next_id>>
              ELSE IF ~AtPath(file_registry[file_id].path).exists
              THEN /\ response' = Reply(404, "File no longer available", 0)
                   /\ UNCHANGED <<file_registry, progress_registry, outputs, next_id>>
              ELSE IF ~validate_conversion(file_registry[file_id].format, output_format)
              THEN /\ response' = Reply(400, "Cannot convert", 0)
                   /\ UNCHANGED <<file_registry, progress_registry, outputs, next_id>>
              ELSE LET file_info == file_registry[file_id]
                       output_file_id == next_id
                       output_filename ==
                           Path(file_info.path.name.stem \o "_converted", output_format)
                       started == update(ConversionProgress,
                                         [status |-> "processing", progress |-> 0,
                                          message |-> "Starting conversion"])
                       o == SelectedConverterConvert(file_info.category,
                                AtPath(file_info.path), output_filename, output_format,
                                NoOptions)
                   IN  /\ next_id' = next_id + 1
                       /\ outputs' = (output_file_id :> OutputDirAfter(o)) @@ outputs
                       /\ IF o.kind = "return"
                          THEN /\ file_registry' =
                                     (output_file_id :>
                                         RegistryEntry(output_filename,
                                             ServerPath("outputs", output_file_id,
                                                        o.result.path),
                                             output_format, file_info.category, file_id,
                                             o.result.is_dir))
                                     @@ file_registry
                               /\ progress_registry' =
                                     (file_id :> update(started,
                                         [status |-> "completed", progress |-> 100,
                                          message |-> "Conversion complete",
                                          output_file_id |-> output_file_id]))
                                     @@ progress_registry
                               /\ response' = Reply(200, "Conversion successful",
                                                    output_file_id)
                          ELSE /\ progress_registry' =
                                     (file_id :> update(started,
                                         [status |-> "failed", progress |-> 0,
                                          message |-> "Conversion failed",
                                          error |-> o.message]))
                                     @@ progress_registry
                               /\ response' =
                                     IF o.exc \in {"ImageConversionError",
                                                   "DocumentConversionError",
                                                   "DataConversionError"}
                                     THEN Reply(400, o.message, 0)
                                     ELSE Reply(500, "Conversion failed: " \o o.message, 0)
                               /\ UNCHANGED file_registry
    /\ UNCHANGED uploads
    /\ UNCHANGED outsideApi

InitApi ==
    /\ ApiIdle
    /\ CoreIdle /\ PipeIdle /\ PdfIdle /\ ImageIdle /\ DataIdle

NextApi == UploadFile \/ ConvertFile

SpecApi == InitApi /\ [][NextApi]_vars

(* ---------------- backend pipelines called on their own --------------- *)
MaxPages == 3

\* Sizes at and around the caps.
DimensionSamples == {1, MAX_DIMENSION, MAX_DIMENSION + 1}

PipelineCalls ==
    {[pipeline |-> IMAGE, input |-> inp, output_format |-> g, options |-> [resize |-> r]] :
        inp \in {File(Path("a", "png"), ImageContent(w, h)) :
                    w \in DimensionSamples, h \in DimensionSamples}
                \cup {File(Path("bad", "png"), Garbage(1)), Missing(Path("gone", "png"))},
        g \in {"jpg", "png", "tiff"},
        r \in {<<>>, <<2, 2>>, <<0, 2>>}}
    \cup
    {[pipeline |-> DOCUMENT, input |-> inp, output_format |-> g, options |-> NoOptions] :
        inp \in {File(Path("a", "pdf"), PdfContent(n, i, t)) :
                    n \in {0, MaxPages, MAX_PDF_PAGES, MAX_PDF_PAGES + 1},
                    i \in {0, 2},
                    t \in {1, MAX_TEXT_SIZE_MB * MB + 1}}
                \cup {File(Path("bad", "pdf"), Garbage(1)), Missing(Path("gone", "pdf")),
                      File(Path("a", "png"), ImageContent(1, 1))},
        g \in {"txt", "png", "jpg", "webp"}}
    \cup
    {[pipeline |-> DATA, input |-> inp, output_format |-> g, options |-> NoOptions] :
        inp \in {File(Path("a", "csv"), TableContent(b, r, c)) :
                    b \in {1, MAX_FILE_SIZE_MB * MB, MAX_FILE_SIZE_MB * MB + 1},
                    r \in {1, MAX_ROWS, MAX_ROWS + 1},
                    c \in {1, MAX_COLUMNS, MAX_COLUMNS + 1}}
                \cup {File(Path("bad", "json"), Garbage(1)), Missing(Path("gone", "csv")),
                      File(Path("a", "txt"), TextContent(1))},
        g \in {"json", "xlsx", "pdf"}}

NotCalled == PipelineRaise("", "", {})

InitPipeline ==
    /\ \E c \in PipelineCalls :
          pipe_call = [pipeline |-> c.pipeline, input |-> c.input,
                       output_format |-> c.output_format, options |-> c.options,
                       called |-> FALSE, outcome |-> NotCalled]
    /\ CoreIdle /\ ApiIdle /\ PdfIdle /\ ImageIdle /\ DataIdle

\* converter.convert(input_path, output_path, output_format, options) into
\* an empty output directory.
PipelineConvert ==
    /\ ~pipe_call.called
    /\ pipe_call' =
          [pipe_call EXCEPT
              !.called = TRUE,
              !.outcome = SelectedConverterConvert(pipe_call.pipeline, pipe_call.input,
                              Path("out", Lower(pipe_call.output_format)),
                              pipe_call.output_format, pipe_call.options)]
    /\ UNCHANGED outsidePipe

NextPipeline == PipelineConvert

SpecPipeline == InitPipeline /\ [][NextPipeline]_vars


(* ---------------- PDF text extraction over a page range --------------- *)
\* options.page_range is None.
NoRange == <<>>

\* The text written: one part per extracted page, "--- Page n ---" and the
\* page's text.
TextOutcome(status, parts) == [status |-> status, parts |-> parts]

\* converters.py DocumentConverter.pdf_to_text on a readable PDF whose pages
\* have the texts given.  PDFConversionOptions.__post_init__ refuses a
\* negative start and an end below the start; the end page is included;
\* on a PDF without pages the range makes pages[-1] raise, which the handler
\* turns into a Failure.
pdf_to_text_pages(pages, page_range) ==
    IF page_range # NoRange /\ (page_range[1] < 0 \/ page_range[2] < page_range[1])
    THEN TextOutcome("ValueError", <<>>)
    ELSE LET total_pages == Len(pages)
             start_page == IF page_range # NoRange
                           THEN Min(page_range[1], total_pages - 1) ELSE 0
             end_page == IF page_range # NoRange
                         THEN Min(page_range[2] + 1, total_pages) ELSE total_pages
         IN  IF start_page < 0 /\ start_page < end_page
             THEN TextOutcome(FAILURE, <<>>)
             ELSE TextOutcome(SUCCESS,
                     [k \in 1..Max(0, end_page - start_page) |->
                         [marker |-> start_page + k, text |-> pages[start_page + k]]])

\* backend document.py DocumentConverter._convert_pdf_to_text on the same:
\* the end page is excluded, and a page whose extracted text is empty gets
\* no part at all.
convert_pdf_to_text_pages(pages, page_range) ==
    LET total_pages == Len(pages)
        start_page == IF page_range # NoRange THEN Max(0, page_range[1]) ELSE 0
        end_page == IF page_range # NoRange THEN Min(total_pages, page_range[2])
                    ELSE total_pages
        visited == [k \in 1..Max(0, end_page - start_page) |->
                       [marker |-> start_page + k, text |-> pages[start_page + k]]]
        HasText(part) == part.text # ""
    IN  TextOutcome(SUCCESS, SelectSeq(visited, HasText))

PageTexts == {"", "x"}

PdfDocuments == UNION {[1..n -> PageTexts] : n \in 0..MaxPages}

PageRanges == {NoRange} \cup {<<a, b>> : a \in -1..(MaxPages + 1), b \in -1..(MaxPages + 1)}

InitPdfText ==
    /\ \E impl \in {"core", "backend"}, pages \in PdfDocuments, page_range \in PageRanges :
          pdf_call = [impl |-> impl, pages |-> pages, page_range |-> page_range,
                      done |-> FALSE, outcome |-> TextOutcome("none", <<>>)]
    /\ CoreIdle /\ ApiIdle /\ PipeIdle /\ ImageIdle /\ DataIdle

PdfToText ==
    /\ ~pdf_call.done
    /\ pdf_call' =
          [pdf_call EXCEPT
              !.done = TRUE,
              !.outcome = IF pdf_call.impl = "core"
                          THEN pdf_to_text_pages(pdf_call.pages, pdf_call.page_range)
                          ELSE convert_pdf_to_text_pages(pdf_call.pages, pdf_call.page_range)]
    /\ UNCHANGED outsidePdf

NextPdfText == PdfToText

SpecPdfText == InitPdfText /\ [][NextPdfText]_vars


(* ------------------- image conversion, pixel by pixel ----------------- *)
MaxPixels == 2

\* A Pillow image: its mode, its pixels as tuples of band values, and for
\* mode P the palette index that image.info marks transparent (-1: the
\* info has no "transparency" key).
Img(mode, pixels, transparency) ==
    [mode |-> mode, pixels |-> pixels, transparency |-> transparency]

White == <<255, 255, 255>>

\* The palette of the sample P images: index 0 and index 1.
Palette == << <<255, 0, 0>>, <<0, 0, 0>> >>

\* Image.convert to RGBA and to RGB, pixel by pixel.
PixelToRGBA(img, px) ==
    CASE img.mode = "RGBA" -> px
      [] img.mode = "RGB" -> px \o <<255>>
      [] img.mode = "LA" -> <<px[1], px[1], px[1], px[2]>>
      [] img.mode = "L" -> <<px[1], px[1], px[1], 255>>
      [] img.mode = "P" -> Palette[px[1] + 1]
                           \o <<IF px[1] = img.transparency THEN 0 ELSE 255>>

convert(img, mode) ==
    IF mode = "RGBA"
    THEN Img("RGBA", [i \in DOMAIN img.pixels |-> PixelToRGBA(img, img.pixels[i])], -1)
    ELSE Img("RGB", [i \in DOMAIN img.pixels |->
                        SubSeq(PixelToRGBA(img, img.pixels[i]), 1, 3)], -1)

\* image.split()[-1]: the last band.
split_last(img) == [i \in DOMAIN img.pixels |-> img.pixels[i][Len(img.pixels[i])]]

\* Image.new("RGB", size, colour).
new_image(size, colour) == Img("RGB", [i \in 1..size |-> colour], -1)

\* Pillow's paste through a mask: per band (in * mask + out * (255 - mask)) / 255,
\* rounded as the library rounds.
Blend(in, out, mask) ==
    LET t == in * mask + out * (255 - mask) + 128
    IN  ((t \div 256) + t) \div 256

\* background.paste(im, mask=mask): im is RGBA, or LA pasted as grey.
paste(background, im, mask) ==
    [background EXCEPT !.pixels =
        [i \in DOMAIN background.pixels |->
            [c \in 1..3 |-> Blend(PixelToRGBA(im, im.pixels[i])[c],
                                  background.pixels[i][c], mask[i])]]]

\* The options dict of the backend: background_color, <<>> when not given.
NoColour == <<>>

NON_TRANSPARENT_FORMATS == {"jpg", "jpeg", "bmp"}

\* Variant of handle_transparency that composites RGBA images only.
handle_transparency_RgbaOnly(image, background_color) ==
    IF image.mode = "RGBA"
    THEN paste(new_image(Len(image.pixels),
                         IF background_color # NoColour THEN background_color ELSE White),
               image, split_last(image))
    ELSE IF image.mode \notin {"RGB", "L"} THEN convert(image, "RGB")
    ELSE image

\* backend image.py ImageConverter._handle_transparency.
handle_transparency(image, background_color) ==
    LET bg_color == IF background_color # NoColour THEN background_color ELSE White
        image1 == IF image.mode = "P" /\ image.transparency # -1
                  THEN convert(image, "RGBA") ELSE image
    IN  IF image.mode \in {"RGBA", "LA", "P"} /\ image1.mode \in {"RGBA", "LA"}
        THEN LET image2 == IF image1.mode = "LA" THEN convert(image1, "RGBA") ELSE image1
             IN  paste(new_image(Len(image2.pixels), bg_color), image2, split_last(image2))
        ELSE IF image1.mode \notin {"RGB", "L"} THEN convert(image1, "RGB")
        ELSE image1

\* backend image.py _save_as_png, _save_as_jpeg, _save_as_webp, _save_as_bmp:
\* the image handed to image.save.
save_as(image, output_format) ==
    CASE output_format \in {"jpg", "jpeg", "bmp"} ->
            IF image.mode \notin {"RGB", "L"} THEN convert(image, "RGB") ELSE image
      [] output_format = "webp" ->
            IF image.mode \notin {"RGB", "RGBA", "L", "LA"} THEN convert(image, "RGBA")
            ELSE image
      [] OTHER ->
            IF image.mode \notin {"RGB", "RGBA", "L", "LA", "P"} THEN convert(image, "RGBA")
            ELSE image

\* backend ImageConverter.convert without resize: the image it saves.
backend_convert_image(image, output_format, background_color) ==
    save_as(IF output_format \in NON_TRANSPARENT_FORMATS
            THEN handle_transparency(image, background_color) ELSE image,
            output_format)

\* converters.py ImageConverter.convert without resize: the image it saves;
\* the background is always white.
core_convert_image(img, output_format) ==
    IF output_format \in {"jpg", "jpeg", "bmp"}
    THEN IF img.mode \in {"RGBA", "P", "LA"}
         THEN LET img1 == IF img.mode = "P" THEN convert(img, "RGBA") ELSE img
              IN  IF img1.mode \in {"RGBA", "LA"}
                  THEN paste(new_image(Len(img.pixels), White), img1, split_last(img1))
                  ELSE new_image(Len(img.pixels), White)
         ELSE IF img.mode # "RGB" THEN convert(img, "RGB")
         ELSE img
    ELSE img

PixelSamples(mode) ==
    CASE mode = "RGBA" -> {<<255, 0, 0, 0>>, <<255, 0, 0, 255>>, <<0, 0, 0, 128>>}
      [] mode = "LA" -> {<<0, 0>>, <<200, 255>>, <<100, 128>>}
      [] mode = "P" -> {<<0>>, <<1>>}
      [] mode = "RGB" -> {<<255, 0, 0>>, <<0, 0, 0>>}
      [] mode = "L" -> {<<0>>, <<200>>}

SampleImages ==
    UNION {{Img(mode, px, t) :
                px \in UNION {[1..n -> PixelSamples(mode)] : n \in 1..MaxPixels},
                t \in IF mode = "P" THEN {-1, 0, 1} ELSE {-1}} :
           mode \in {"RGBA", "LA", "P", "RGB", "L"}}

InitImage ==
    /\ \E impl \in {"core", "backend"}, image \in SampleImages,
          fmt \in {"jpg", "jpeg", "bmp", "png", "webp"},
          bg \in {NoColour, <<0, 0, 255>>} :
          /\ impl = "core" => bg = NoColour
          /\ image_call = [impl |-> impl, image |-> image, output_format |-> fmt,
                           background_color |-> bg, done |-> FALSE, saved |-> image]
    /\ CoreIdle /\ ApiIdle /\ PipeIdle /\ PdfIdle /\ DataIdle

ConvertImage ==
    /\ ~image_call.done
    /\ image_call' =
          [image_call EXCEPT
              !.done = TRUE,
              !.saved = IF image_call.impl = "core"
                        THEN core_convert_image(image_call.image, image_call.output_format)
                        ELSE backend_convert_image(image_call.image,
                                 image_call.output_format, image_call.background_color)]
    /\ UNCHANGED outsideImage

NextImage == ConvertImage

SpecImage == InitImage /\ [][NextImage]_vars


(* --------------- data.py: DataConverter._apply_transformations -------- *)
MaxRows == 2

MaxTableColumns == 2

\* A DataFrame: its column labels and its rows, one cell per column.
Table(columns, rows) == [columns |-> columns, rows |-> rows]

NaN == "NaN"

ColumnNames == <<"a", "b", "c", "d">>

\* str.strip on a cell of an object column; a missing cell stays missing.
str_strip(cell) == IF cell = " x " THEN "x" ELSE cell

\* The positions of x in a sequence, ascending.
RECURSIVE Positions(_, _, _)
Positions(seq, x, from) ==
    IF from > Len(seq) THEN <<>>
    ELSE (IF seq[from] = x THEN <<from>> ELSE <<>>) \o Positions(seq, x, from + 1)

\* The table made of the columns at the positions given, in that order.
TakeColumns(t, positions) ==
    Table([k \in 1..Len(positions) |-> t.columns[positions[k]]],
          [r \in 1..Len(t.rows) |-> [k \in 1..Len(positions) |-> t.rows[r][positions[k]]]])

\* df.dropna(how="all")
dropna_rows(t) ==
    LET NotEmpty(row) == \E j \in DOMAIN row : row[j] # NaN
    IN  Table(t.columns, SelectSeq(t.rows, NotEmpty))

\* df.dropna(axis=1, how="all")
dropna_columns(t) ==
    LET Keep(j) == \E r \in DOMAIN t.rows : t.rows[r][j] # NaN
        Indexes == [j \in 1..Len(t.columns) |-> j]
    IN  TakeColumns(t, SelectSeq(Indexes, Keep))

\* df[col] = df[col].str.strip() for every object column
strip_whitespace(t) ==
    Table(t.columns, [r \in 1..Len(t.rows) |->
                         [j \in 1..Len(t.columns) |-> str_strip(t.rows[r][j])]])

\* df.rename(columns=column_mapping); the mapping is a function on its keys.
rename(t, column_mapping) ==
    Table([j \in 1..Len(t.columns) |->
              IF t.columns[j] \in DOMAIN column_mapping
              THEN column_mapping[t.columns[j]] ELSE t.columns[j]],
          t.rows)

\* df[available_cols]: every column bearing a label of the list, label by label.
RECURSIVE PositionsOfAll(_, _)
PositionsOfAll(columns, labels) ==
    IF labels = <<>> THEN <<>>
    ELSE Positions(columns, Head(labels), 1) \o PositionsOfAll(columns, Tail(labels))

\* The options dict: three flags, rename_columns (empty: not given) and
\* columns (empty: not given).
TransformOptions(rows, columns, strip, mapping, selected) ==
    [drop_empty_rows |-> rows, drop_empty_columns |-> columns, strip_whitespace |-> strip,
     rename_columns |-> mapping, columns |-> selected]

apply_transformations(df, options) ==
    LET df1 == IF options.drop_empty_rows THEN dropna_rows(df) ELSE df
        df2 == IF options.drop_empty_columns THEN dropna_columns(df1) ELSE df1
        df3 == IF options.strip_whitespace THEN strip_whitespace(df2) ELSE df2
        df4 == IF DOMAIN options.rename_columns # {}
               THEN rename(df3, options.rename_columns) ELSE df3
        InTable(c) == \E j \in DOMAIN df4.columns : df4.columns[j] = c
        available_cols == SelectSeq(options.columns, InTable)
    IN  IF options.columns # <<>> /\ available_cols # <<>>
        THEN TakeColumns(df4, PositionsOfAll(df4.columns, available_cols))
        ELSE df4

SampleTables ==
    UNION {{Table(SubSeq(ColumnNames, 1, c), rows) :
                rows \in UNION {[1..r -> [1..c -> {NaN, " x "}]] : r \in 0..MaxRows}} :
           c \in 1..MaxTableColumns}

SampleMappings == {EmptyMap, "a" :> "z", "a" :> "b", ("a" :> "b") @@ ("b" :> "a")}

SampleSelections == {<<>>, <<"a">>, <<"b", "a">>, <<"z">>, <<"z", "b">>, <<"q">>}

InitData ==
    /\ \E t \in SampleTables, flags \in [1..3 -> BOOLEAN], mapping \in SampleMappings,
          selected \in SampleSelections :
          data_call = [table |-> t,
                       options |-> TransformOptions(flags[1], flags[2], flags[3],
                                                    mapping, selected),
                       done |-> FALSE, result |-> t]
    /\ CoreIdle /\ ApiIdle /\ PipeIdle /\ PdfIdle /\ ImageIdle

ApplyTransformations ==
    /\ ~data_call.done
    /\ data_call' = [data_call EXCEPT
                        !.done = TRUE,
                        !.result = apply_transformations(data_call.table, data_call.options)]
    /\ UNCHANGED outsideData

NextData == ApplyTransformations

SpecData == InitData /\ [][NextData]_vars


(* ------------- reading JSON into a table (data.py, converters.py) ----- *)
MaxMembers == 2

\* A parsed JSON value: a scalar, null, an array (members without keys) or
\* an object (members in document order).
JValue(kind, v, members) == [kind |-> kind, v |-> v, members |-> members]

JScalar(v) == JValue("scalar", v, <<>>)

JNull == JValue("null", 0, <<>>)

JArray(items) ==
    JValue("array", 0, [i \in DOMAIN items |-> [key |-> "", value |-> items[i]]])

JObject(keys, values) ==
    JValue("object", 0, [i \in DOMAIN keys |-> [key |-> keys[i], value |-> values[i]]])

\* json.loads raised JSONDecodeError.
JInvalid == JValue("invalid", 0, <<>>)

\* A missing cell of a DataFrame.
NaNCell == JValue("nan", 0, <<>>)

ValuesOf(j) == [i \in DOMAIN j.members |-> j.members[i].value]

KeysOf(j) == [i \in DOMAIN j.members |-> j.members[i].key]

HasKey(j, key) == \E i \in DOMAIN j.members : j.members[i].key = key

\* dict.get(key, NaN)
Lookup(j, key) ==
    IF HasKey(j, key)
    THEN j.members[CHOOSE i \in DOMAIN j.members : j.members[i].key = key].value
    ELSE NaNCell

\* The labels of a default RangeIndex.
RangeLabels == <<"0", "1", "2", "3", "4">>

default_index(n) == SubSeq(RangeLabels, 1, n)

\* The labels of several label lists, each once, in order of first appearance.
RECURSIVE union_indexes(_)
union_indexes(lists) ==
    IF lists = <<>> THEN <<>>
    ELSE LET rest == union_indexes(SubSeq(lists, 1, Len(lists) - 1))
             IsNew(l) == \A i \in DOMAIN rest : rest[i] # l
         IN  rest \o SelectSeq(lists[Len(lists)], IsNew)

\* A DataFrame, or the exception its construction raised.
Frame(index, columns, rows) ==
    [status |-> "ok", index |-> index, columns |-> columns, rows |-> rows]

FrameError(exc) == [status |-> exc, index |-> <<>>, columns |-> <<>>, rows |-> <<>>]

AllOfKind(items, kind) == \A i \in DOMAIN items : items[i].kind = kind

\* pd.DataFrame(list): a list of dicts gives a row per dict over the union of
\* their keys, a list of lists a row per list, a list of scalars one column.
DataFrame_list(items, index) ==
    IF items = <<>> THEN Frame(<<>>, <<>>, <<>>)
    ELSE IF AllOfKind(items, "object")
    THEN LET columns == union_indexes([i \in DOMAIN items |-> KeysOf(items[i])])
         IN  Frame(index, columns,
                   [r \in DOMAIN items |->
                       [c \in DOMAIN columns |-> Lookup(items[r], columns[c])]])
    ELSE IF AllOfKind(items, "array")
    THEN LET width == CHOOSE n \in 0..(MaxMembers + 1) :
                          /\ \A i \in DOMAIN items : Len(items[i].members) <= n
                          /\ \E i \in DOMAIN items : Len(items[i].members) = n
         IN  Frame(index, default_index(width),
                   [r \in DOMAIN items |->
                       [c \in 1..width |->
                           IF c <= Len(items[r].members) THEN items[r].members[c].value
                           ELSE NaNCell]])
    ELSE Frame(index, <<"0">>, [r \in DOMAIN items |-> <<items[r]>>])

\* pd.DataFrame(dict): a column per key; the index comes from the values
\* (core/internals/construction.py _extract_index), scalars are broadcast.
DataFrame_dict(data) ==
    LET values == ValuesOf(data)
        have_dicts == \E i \in DOMAIN values : values[i].kind = "object"
        have_raw_arrays == \E i \in DOMAIN values : values[i].kind = "array"
        raw_lengths == {Len(values[i].members) : i \in {j \in DOMAIN values :
                                                         values[j].kind = "array"}}
        index == IF have_raw_arrays
                 THEN default_index(CHOOSE n \in raw_lengths : TRUE)
                 ELSE union_indexes([i \in DOMAIN values |->
                          IF values[i].kind = "object" THEN KeysOf(values[i]) ELSE <<>>])
        Cell(r, c) ==
            CASE values[c].kind = "array" -> values[c].members[r].value
              [] values[c].kind = "object" -> Lookup(values[c], index[r])
              [] OTHER -> values[c]
    IN  IF values = <<>> THEN Frame(<<>>, <<>>, <<>>)
        ELSE IF ~have_dicts /\ ~have_raw_arrays
        THEN FrameError("ValueError: If using all scalar values, you must pass an index")
        ELSE IF have_raw_arrays /\ Cardinality(raw_lengths) > 1
        THEN FrameError("ValueError: All arrays must be of the same length")
        ELSE IF have_raw_arrays /\ have_dicts
        THEN FrameError("ValueError: Mixing dicts with non-Series")
        ELSE Frame(index, KeysOf(data),
                   [r \in DOMAIN index |-> [c \in DOMAIN values |-> Cell(r, c)]])

\* pandas _from_nested_dict: {index: {column: v}} turned into
\* {column: {index: v}}.
from_nested_dict(data) ==
    LET columns == union_indexes([i \in DOMAIN data.members |->
                                     KeysOf(data.members[i].value)])
        Holds(col) == SelectSeq(data.members, LAMBDA m : HasKey(m.value, col))
    IN  JObject(columns,
                [c \in DOMAIN columns |->
                    JValue("object", 0,
                           [k \in DOMAIN Holds(columns[c]) |->
                               [key |-> Holds(columns[c])[k].key,
                                value |-> Lookup(Holds(columns[c])[k].value, columns[c])]])])

\* pd.DataFrame.from_dict(data, orient="index")
from_dict_index(data) ==
    IF data.kind # "object" THEN FrameError("AttributeError")
    ELSE IF data.members = <<>> THEN Frame(<<>>, <<>>, <<>>)
    ELSE IF data.members[1].value.kind = "object"
    THEN IF AllOfKind(ValuesOf(data), "object") THEN DataFrame_dict(from_nested_dict(data))
         ELSE FrameError("AttributeError")
    ELSE DataFrame_list(ValuesOf(data), KeysOf(data))

\* pd.DataFrame(data) on a parsed list (of dicts, of lists or of scalars) or
\* on a parsed dict.
DataFrame(data) ==
    IF data.kind = "array"
    THEN DataFrame_list(ValuesOf(data), default_index(Len(data.members)))
    ELSE DataFrame_dict(data)

\* pd.DataFrame(data, columns=columns, index=index) on a list of rows with
\* the labels given as lists of scalars (NaNCell: argument not given).
DataFrame_labelled(data, columns, index) ==
    LET rows == IF data.kind = "array" THEN ValuesOf(data) ELSE <<>>
        Labels(l) == [i \in DOMAIN l.members |-> l.members[i].value.v]
        cols == IF columns.kind = "array" THEN Labels(columns)
                ELSE IF rows = <<>> THEN <<>>
                ELSE default_index(Len(rows[1].members))
        idx == IF index.kind = "array" THEN Labels(index) ELSE default_index(Len(rows))
    IN  IF /\ AllOfKind(rows, "array")
           /\ \A r \in DOMAIN rows : Len(rows[r].members) = Len(cols)
           /\ Len(idx) = Len(rows)
        THEN Frame(idx, cols, [r \in DOMAIN rows |-> ValuesOf(rows[r])])
        ELSE FrameError("ValueError")

\* pd.read_json(path, orient=orient) on a document that parses to data
\* (io/json FrameParser._parse); dtype conversion is left out.
read_json(data, orient) ==
    CASE orient = "index" -> from_dict_index(data)
      [] orient = "split" ->
            IF data.kind # "object" THEN FrameError("AttributeError")
            ELSE IF \E i \in DOMAIN data.members :
                        data.members[i].key \notin {"columns", "index", "data"}
            THEN FrameError("ValueError: JSON data had unexpected key(s)")
            ELSE DataFrame_labelled(Lookup(data, "data"), Lookup(data, "columns"),
                                    Lookup(data, "index"))
      [] OTHER -> DataFrame(data)

\* options.get("orient") is None.
NoOrient == "None"

\* backend data.py DataConverter._read_json, and the wrapping of what it
\* raises by DataConverter.convert.
backend_read_json(data, orient) ==
    LET Wrapped(f) == IF f.status = "ok" THEN f ELSE FrameError("DataConversionError")
    IN  IF data.kind = "invalid" THEN FrameError("DataConversionError: Invalid JSON file")
        ELSE IF data.kind = "array"
        THEN Wrapped(IF orient # NoOrient THEN read_json(data, orient) ELSE DataFrame(data))
        ELSE IF data.kind = "object"
        THEN IF orient # NoOrient THEN Wrapped(read_json(data, orient))
             ELSE LET first_value == IF data.members = <<>> THEN JNull
                                     ELSE data.members[1].value
                  IN  Wrapped(CASE first_value.kind = "array" -> DataFrame(data)
                                [] first_value.kind = "object" -> from_dict_index(data)
                                [] OTHER -> DataFrame(JArray(<<data>>)))
        ELSE FrameError("DataConversionError: JSON must be an object or array")

\* converters.py DataConverter.json_to_csv: the table it builds, or the
\* Failure it returns.  It takes no orientation for reading.
core_read_json(data) ==
    LET Failed_(f) == IF f.status = "ok" THEN f ELSE FrameError(FAILURE)
    IN  IF data.kind = "invalid" THEN FrameError(FAILURE)
        ELSE IF data.kind = "array" THEN Failed_(DataFrame(data))
        ELSE IF data.kind = "object"
        THEN IF HasKey(data, "data") /\ HasKey(data, "columns")
             THEN Failed_(DataFrame_labelled(Lookup(data, "data"), Lookup(data, "columns"),
                                             NaNCell))
             ELSE IF HasKey(data, "columns") /\ HasKey(data, "index")
             THEN Failed_(read_json(data, "split"))
             ELSE Failed_(DataFrame(JArray(<<data>>)))
        ELSE FrameError(FAILURE)

Scalars == {JScalar("x"), JScalar("y")}

Keys == <<"a", "b", "c", "d">>

\* Every sequence of at most MaxMembers elements of a set.
UpTo(S) == UNION {[1..n -> S] : n \in 0..MaxMembers}

FlatObjects == {JObject(SubSeq(Keys, 1, Len(vs)), vs) : vs \in UpTo(Scalars)}

ScalarArrays == {JArray(vs) : vs \in UpTo(Scalars)}

\* The documents read: invalid text, null, scalars, arrays of scalars, of
\* objects and of arrays, objects of scalars, of arrays and of objects, and
\* the split and table layouts.
Documents ==
    {JInvalid, JNull} \cup Scalars
    \cup UNION {{JArray(vs) : vs \in UpTo(S)} \cup
                {JObject(SubSeq(Keys, 1, Len(vs)), vs) : vs \in UpTo(S)} :
                S \in {Scalars, FlatObjects, ScalarArrays}}
    \cup {JObject(<<"columns", "data">>,
                  <<JArray(<<JScalar("a")>>), JArray(<<JArray(<<JScalar("x")>>)>>)>>),
          JObject(<<"columns", "index", "data">>,
                  <<JArray(<<JScalar("a")>>), JArray(<<JScalar("r")>>),
                    JArray(<<JArray(<<JScalar("x")>>)>>)>>)}

Orients == {NoOrient, "records", "columns", "index", "split"}

InitJson ==
    /\ \E impl \in {"core", "backend"}, document \in Documents, orient \in Orients :
          /\ impl = "core" => orient = NoOrient
          /\ data_call = [impl |-> impl, document |-> document, orient |-> orient,
                          done |-> FALSE, frame |-> FrameError("none")]
    /\ CoreIdle /\ ApiIdle /\ PipeIdle /\ PdfIdle /\ ImageIdle

ReadJson ==
    /\ ~data_call.done
    /\ data_call' = [data_call EXCEPT
                        !.done = TRUE,
                        !.frame = IF data_call.impl = "core"
                                  THEN core_read_json(data_call.document)
                                  ELSE backend_read_json(data_call.document,
                                                         data_call.orient)]
    /\ UNCHANGED outsideData

NextJson == ReadJson

SpecJson == InitJson /\ [][NextJson]_vars


(* ---------------------- option values out of range -------------------- *)
DEFAULT_QUALITY == 85

MIN_QUALITY == 1

MAX_QUALITY == 100

\* An optional number: <<>> for None, <<n>> for n.
NotGiven == <<>>

\* converters.py ImageConversionOptions.__post_init__: "" when accepted.
ImageConversionOptions_post_init(o) ==
    IF o.quality < 1 \/ o.quality > 100 THEN "Quality must be between 1 and 100"
    ELSE IF o.scale # NotGiven /\ o.scale[1] <= 0 THEN "Scale must be positive"
    ELSE IF o.width # NotGiven /\ o.width[1] <= 0 THEN "Width must be positive"
    ELSE IF o.height # NotGiven /\ o.height[1] <= 0 THEN "Height must be positive"
    ELSE ""

\* converters.py PDFConversionOptions.__post_init__: "" when accepted.
PDFConversionOptions_post_init(o) ==
    IF o.image_dpi < 72 \/ o.image_dpi > 600 THEN "DPI must be between 72 and 600"
    ELSE IF o.page_range # NoRange
            /\ (o.page_range[1] < 0 \/ o.page_range[2] < o.page_range[1])
    THEN "Invalid page range"
    ELSE ""

\* backend image.py ImageConverter._validate_quality; a value int() refuses
\* is given as is_int = FALSE.
validate_quality(is_int, quality) ==
    IF ~is_int THEN DEFAULT_QUALITY
    ELSE Max(MIN_QUALITY, Min(MAX_QUALITY, quality))

\* How a call dealt with its options: the exception raised ("" when none),
\* whether the input had been loaded by then, whether output was written,
\* and the quality and page range the output was produced with.
OptionsOutcome(exc, loaded, written, quality, page_range) ==
    [exc |-> exc, loaded |-> loaded, written |-> written,
     quality |-> quality, page_range |-> page_range]

\* The options of a call, for both libraries: image options use quality,
\* width, height, scale (core) or quality, resize (backend); PDF options use
\* image_dpi and page_range.
OptionValues(kind, impl, quality_is_int, quality, width, height, scale, resize, image_dpi, page_range) ==
    [kind |-> kind, impl |-> impl, quality_is_int |-> quality_is_int, quality |-> quality,
     width |-> width, height |-> height, scale |-> scale, resize |-> resize,
     image_dpi |-> image_dpi, page_range |-> page_range]

\* The call on a readable input: a small image saved as JPEG, or the text
\* of a PDF of MaxPages pages.
apply_options(o) ==
    CASE o.kind = "image" /\ o.impl = "core" ->
            IF ImageConversionOptions_post_init(o) # ""
            THEN OptionsOutcome("ValueError", FALSE, FALSE, 0, NoRange)
            ELSE OptionsOutcome("", TRUE, TRUE, o.quality, NoRange)
      [] o.kind = "image" /\ o.impl = "backend" ->
            IF o.resize # NotGiven /\ resize_image(o.resize) # ""
            THEN OptionsOutcome("ImageConversionError", TRUE, FALSE, 0, NoRange)
            ELSE OptionsOutcome("", TRUE, TRUE,
                                validate_quality(o.quality_is_int, o.quality), NoRange)
      [] o.kind = "pdf" /\ o.impl = "core" ->
            IF PDFConversionOptions_post_init(o) # ""
            THEN OptionsOutcome("ValueError", FALSE, FALSE, 0, NoRange)
            ELSE OptionsOutcome("", TRUE, TRUE, 0, o.page_range)
      [] OTHER ->
            OptionsOutcome("", TRUE, TRUE, 0,
                           IF o.page_range = NoRange THEN NoRange
                           ELSE <<Max(0, o.page_range[1]), Min(MaxPages, o.page_range[2])>>)

QualitySamples == {0, MIN_QUALITY, MAX_QUALITY, MAX_QUALITY + 1}

SideSamples == {NotGiven, <<0>>, <<2>>}

OptionSamples ==
    {OptionValues("image", "core", TRUE, q, w, h, s, NotGiven, 200, NoRange) :
        q \in QualitySamples, w \in SideSamples, h \in SideSamples, s \in SideSamples}
    \cup {OptionValues("image", "backend", i, q, NotGiven, NotGiven, NotGiven, r, 200, NoRange) :
            i \in BOOLEAN, q \in QualitySamples,
            r \in {NotGiven, <<2, 2>>, <<0, 2>>, <<2, MAX_DIMENSION + 1>>}}
    \cup {OptionValues("pdf", impl, TRUE, DEFAULT_QUALITY, NotGiven, NotGiven, NotGiven,
                       NotGiven, dpi, r) :
            impl \in {"core", "backend"}, dpi \in {71, 72, 600, 601}, r \in PageRanges}

InitOptions ==
    /\ \E o \in OptionSamples :
          pipe_call = [options |-> o, called |-> FALSE,
                       outcome |-> OptionsOutcome("none", FALSE, FALSE, 0, NoRange)]
    /\ CoreIdle /\ ApiIdle /\ PdfIdle /\ ImageIdle /\ DataIdle

ApplyOptions ==
    /\ ~pipe_call.called
    /\ pipe_call' = [pipe_call EXCEPT !.called = TRUE,
                                      !.outcome = apply_options(pipe_call.options)]
    /\ UNCHANGED outsidePipe

NextOptions == ApplyOptions

SpecOptions == InitOptions /\ [][NextOptions]_vars


(* ------------- converters.py: ImageConverter resize selection --------- *)
MaxSide == 4

\* int(a * (b / c)) for positive integers; the samples are small enough for
\* the float product to round to the exact quotient.
ScaleInt(a, b, c) == (a * b) \div c

\* Variant of _calculate_new_size that keeps the aspect ratio whatever
\* preserve_aspect_ratio says.
calculate_new_size_KeepAspect(original_size, target_width, target_height, preserve_aspect_ratio) ==
    LET orig_width == original_size[1]
        orig_height == original_size[2]
    IN  IF target_width # NotGiven /\ target_height # NotGiven
        THEN IF target_width[1] * orig_height <= target_height[1] * orig_width
             THEN <<ScaleInt(orig_width, target_width[1], orig_width),
                    ScaleInt(orig_height, target_width[1], orig_width)>>
             ELSE <<ScaleInt(orig_width, target_height[1], orig_height),
                    ScaleInt(orig_height, target_height[1], orig_height)>>
        ELSE IF target_width # NotGiven
        THEN <<target_width[1], ScaleInt(orig_height, target_width[1], orig_width)>>
        ELSE IF target_height # NotGiven
        THEN <<ScaleInt(orig_width, target_height[1], orig_height), target_height[1]>>
        ELSE original_size

\* ImageConverter._calculate_new_size
calculate_new_size(original_size, target_width, target_height, preserve_aspect_ratio) ==
    LET orig_width == original_size[1]
        orig_height == original_size[2]
    IN  IF ~preserve_aspect_ratio
        THEN <<IF target_width # NotGiven THEN target_width[1] ELSE orig_width,
               IF target_height # NotGiven THEN target_height[1] ELSE orig_height>>
        ELSE IF target_width # NotGiven /\ target_height # NotGiven
        THEN IF target_width[1] * orig_height <= target_height[1] * orig_width
             THEN <<ScaleInt(orig_width, target_width[1], orig_width),
                    ScaleInt(orig_height, target_width[1], orig_width)>>
             ELSE <<ScaleInt(orig_width, target_height[1], orig_height),
                    ScaleInt(orig_height, target_height[1], orig_height)>>
        ELSE IF target_width # NotGiven
        THEN <<target_width[1], ScaleInt(orig_height, target_width[1], orig_width)>>
        ELSE IF target_height # NotGiven
        THEN <<ScaleInt(orig_width, target_height[1], orig_height), target_height[1]>>
        ELSE original_size

\* The resize step of ImageConverter.convert: the size handed to img.resize,
\* or the original size when no resize is asked for.  scale is <<n, d>> for
\* the factor n/d.
resized_size(size, options) ==
    IF options.scale # NotGiven
    THEN <<ScaleInt(size[1], options.scale[1], options.scale[2]),
           ScaleInt(size[2], options.scale[1], options.scale[2])>>
    ELSE IF options.width # NotGiven \/ options.height # NotGiven
    THEN calculate_new_size(size, options.width, options.height,
                            options.preserve_aspect_ratio)
    ELSE size

\* img.resize refuses an empty size; the handler turns that into a Failure.
resize_status(new_size) == IF new_size[1] <= 0 \/ new_size[2] <= 0 THEN FAILURE ELSE SUCCESS

OptionalSide == {NotGiven} \cup {<<n>> : n \in 1..MaxSide}

ScaleSamples == {NotGiven, <<1, 2>>, <<1, 1>>, <<2, 1>>}

InitResize ==
    /\ \E w \in 1..MaxSide, h \in 1..MaxSide, width \in OptionalSide, height \in OptionalSide,
          scale \in ScaleSamples, preserve \in BOOLEAN :
          image_call = [size |-> <<w, h>>,
                        options |-> [width |-> width, height |-> height, scale |-> scale,
                                     preserve_aspect_ratio |-> preserve],
                        done |-> FALSE, status |-> "none", new_size |-> <<w, h>>]
    /\ CoreIdle /\ ApiIdle /\ PipeIdle /\ PdfIdle /\ DataIdle

Resize ==
    /\ ~image_call.done
    /\ image_call' =
          [image_call EXCEPT
              !.done = TRUE,
              !.new_size = resized_size(image_call.size, image_call.options),
              !.status = resize_status(resized_size(image_call.size, image_call.options))]
    /\ UNCHANGED outsideImage

NextResize == Resize

SpecResize == InitResize /\ [][NextResize]_vars


(* --------------- utils.py ConversionProgress under updates ------------ *)
MaxOvershoot == 2

\* Percentages a callback may report: around 0, in the middle, around 100.
ReportedPercents == (-MaxOvershoot..1) \cup {50} \cup (99..(100 + MaxOvershoot))

\* The last call on the progress record: which, and the percent it gave.
ProgressCall(op, file_id, given, percent) ==
    [op |-> op, file_id |-> file_id, given |-> given, percent |-> percent]

InitProgress ==
    /\ ApiIdle
    /\ CoreIdle /\ PipeIdle /\ PdfIdle /\ ImageIdle /\ DataIdle

\* convert_file: progress = ConversionProgress(file_id); progress.update(...);
\* progress_registry[file_id] = progress.
StartProgress ==
    /\ progress_registry' =
          (1 :> update(ConversionProgress, [status |-> "processing", progress |-> 0,
                                            message |-> "Starting conversion"]))
          @@ progress_registry
    /\ response' = ProgressCall("start", 1, TRUE, 0)
    /\ UNCHANGED <<file_registry, uploads, outputs, next_id, requests, outsideApi>>

\* convert_file.update_progress(percent, message), called by a pipeline.
update_progress ==
    \E percent \in ReportedPercents, message \in {"Loading image", "Conversion complete"} :
        /\ progress_registry' =
              IF 1 \in DOMAIN progress_registry
              THEN [progress_registry EXCEPT
                       ![1] = update(@, [progress |-> percent, message |-> message])]
              ELSE progress_registry
        /\ response' = ProgressCall("update_progress", 1, TRUE, percent)
        /\ UNCHANGED <<file_registry, uploads, outputs, next_id, requests, outsideApi>>

\* ConversionProgress.update with any of its keyword arguments given.
ProgressUpdate ==
    \E given \in SUBSET {"status", "progress", "error"},
       percent \in ReportedPercents, status \in {"completed", "failed"} :
        /\ 1 \in DOMAIN progress_registry
        /\ progress_registry' =
              [progress_registry EXCEPT
                  ![1] = update(@, [k \in given |->
                                       CASE k = "status" -> status
                                         [] k = "progress" -> percent
                                         [] OTHER -> "err"])]
        /\ response' = ProgressCall("update", 1, "progress" \in given, percent)
        /\ UNCHANGED <<file_registry, uploads, outputs, next_id, requests, outsideApi>>

\* delete_file / cleanup_task: progress_registry.pop(file_id, None).
PopProgress ==
    /\ progress_registry' = [id \in DOMAIN progress_registry \ {1} |-> progress_registry[id]]
    /\ response' = ProgressCall("pop", 1, FALSE, 0)
    /\ UNCHANGED <<file_registry, uploads, outputs, next_id, requests, outsideApi>>

NextProgress == StartProgress \/ update_progress \/ ProgressUpdate \/ PopProgress

SpecProgress == InitProgress /\ [][NextProgress]_vars


(* ------------- backend pipelines step by step, with their events ------ *)
MaxImages == 2

\* What a running pipeline did, in order: a progress callback with its
\* percent, or a step on page or file n.
Event(e, n) == [e |-> e, n |-> n]

Reported(n) == Event("progress", n)

\* A call of converter.convert under way: the arguments, for a PDF the text
\* size and the embedded images of its pages (page k of a long PDF repeats
\* the pattern), and the locals of the method.
Run(op, inp, output_format, page_range, resize, texts, images, write_fails) ==
    [op |-> op, input |-> inp, output_format |-> output_format, page_range |-> page_range,
     resize |-> resize, texts |-> texts, images |-> images, write_fails |-> write_fails,
     pc |-> "Start", total_pages |-> 0, page_num |-> 0, end_page |-> 0,
     text_parts |-> <<>>, text_size |-> 0, files |-> <<>>, dir_made |-> FALSE,
     images_extracted |-> 0, log |-> <<>>, error |-> ""]

PageOf(pattern, page_num) == pattern[(page_num % MaxPages) + 1]

\* len(f"--- Page {n} ---\n")
MarkerLen(n) == 14 + (IF n < 10 THEN 1 ELSE IF n < 100 THEN 2 ELSE 3)

\* Variant of loop_progress that counts down from the top of the span.
loop_progress_CountDown(i, pages_to_process, span) ==
    20 + span - ((i + 1) * span) \div pages_to_process

\* 20 + int((i + 1) / pages_to_process * span)
loop_progress(i, pages_to_process, span) == 20 + ((i + 1) * span) \div pages_to_process

\* Variant of page_cap_exceeded that lets every page count through.
page_cap_exceeded_Never(total_pages) == FALSE

\* total_pages > MAX_PDF_PAGES
page_cap_exceeded(total_pages) == total_pages > MAX_PDF_PAGES

\* Variant of placeholder_needed that never asks for the placeholder.
placeholder_needed_Never(images_extracted) == FALSE

\* images_extracted == 0
placeholder_needed(images_extracted) == images_extracted = 0

Fail(run, events, error) ==
    [run EXCEPT !.pc = "Failed", !.log = @ \o events, !.error = error]

PdfOps == {"pdf_text", "pdf_images"}

\* progress_callback(10, ...); reader = PdfReader(str(input_path))
PdfOpen ==
    /\ pdf_call.op \in PdfOps /\ pdf_call.pc = "Start"
    /\ pdf_call' =
          IF pdf_call.input.content.kind # "pdf"
          THEN Fail(pdf_call, <<Reported(10)>>,
                    IF pdf_call.op = "pdf_text" THEN "Failed to extract text from PDF"
                    ELSE "Failed to convert PDF to images")
          ELSE [pdf_call EXCEPT !.pc = "Opened",
                                !.log = @ \o <<Reported(10), Event("open", 0)>>]
    /\ UNCHANGED outsidePdf

\* total_pages = len(reader.pages)
PdfCount ==
    /\ pdf_call.op \in PdfOps /\ pdf_call.pc = "Opened"
    /\ pdf_call' = [pdf_call EXCEPT !.pc = "Validating",
                                    !.total_pages = pdf_call.input.content.pages]
    /\ UNCHANGED outsidePdf

\* The page-count check, the page range, progress 20, and for images the
\* mkdir of the output directory.
PdfValidate ==
    /\ pdf_call.op \in PdfOps /\ pdf_call.pc = "Validating"
    /\ pdf_call' =
          IF page_cap_exceeded(pdf_call.total_pages)
          THEN Fail(pdf_call, <<Event("check_pages", pdf_call.total_pages)>>,
                    "PDF exceeds maximum pages")
          ELSE LET start_page == IF pdf_call.page_range # NoRange
                                 THEN Max(0, pdf_call.page_range[1]) ELSE 0
                   end_page == IF pdf_call.page_range # NoRange
                               THEN Min(pdf_call.total_pages, pdf_call.page_range[2])
                               ELSE pdf_call.total_pages
               IN  [pdf_call EXCEPT
                       !.pc = "Processing", !.page_num = start_page,
                       !.end_page = end_page,
                       !.dir_made = pdf_call.op = "pdf_images",
                       !.log = @ \o <<Event("check_pages", pdf_call.total_pages), Reported(20)>>
                                 \o (IF pdf_call.op = "pdf_images"
                                     THEN <<Event("mkdir", 0)>> ELSE <<>>)]
    /\ UNCHANGED outsidePdf

\* One iteration of the page loop.
PdfPage ==
    /\ pdf_call.op \in PdfOps /\ pdf_call.pc = "Processing"
    /\ pdf_call.page_num < pdf_call.end_page
    /\ LET page_num == pdf_call.page_num
           start_page == IF pdf_call.page_range # NoRange
                         THEN Max(0, pdf_call.page_range[1]) ELSE 0
           i == page_num - start_page
           pages_to_process == pdf_call.end_page - start_page
           page_text == PageOf(pdf_call.texts, page_num)
           page_images == PageOf(pdf_call.images, page_num)
           names == [img_idx \in 1..page_images |-> <<page_num + 1, img_idx>>]
       IN  pdf_call' =
              IF pdf_call.op = "pdf_text"
              THEN [pdf_call EXCEPT
                      !.page_num = page_num + 1,
                      !.text_parts = IF page_text > 0 THEN Append(@, page_num + 1) ELSE @,
                      !.text_size = IF page_text > 0
                                    THEN @ + MarkerLen(page_num + 1) + page_text + 2 ELSE @,
                      !.log = @ \o <<Event("extract", page_num + 1),
                                     Reported(loop_progress(i, pages_to_process, 70))>>]
              ELSE [pdf_call EXCEPT
                      !.page_num = page_num + 1,
                      !.files = @ \o names,
                      !.images_extracted = @ + page_images,
                      !.log = @ \o <<Event("extract", page_num + 1)>>
                                \o [k \in 1..page_images |-> Event("write", page_num + 1)]
                                \o <<Reported(loop_progress(i, pages_to_process, 75))>>]
    /\ UNCHANGED outsidePdf

\* The loop is over.
PdfEndOfPages ==
    /\ pdf_call.op \in PdfOps /\ pdf_call.pc = "Processing"
    /\ pdf_call.page_num >= pdf_call.end_page
    /\ pdf_call' = [pdf_call EXCEPT !.pc = "Finalizing"]
    /\ UNCHANGED outsidePdf

\* Text: the size check, progress 95, the write, progress 100.  Images: the
\* placeholder when nothing was extracted, progress 100.
PdfFinish ==
    /\ pdf_call.op \in PdfOps /\ pdf_call.pc = "Finalizing"
    /\ pdf_call' =
          IF pdf_call.op = "pdf_text"
          THEN IF pdf_call.text_size > MAX_TEXT_SIZE_MB * MB
               THEN Fail(pdf_call, <<Event("check_size", 0)>>,
                         "Extracted text size exceeds maximum")
               ELSE [pdf_call EXCEPT
                       !.pc = "Done", !.files = <<<<0, 0>>>>,
                       !.log = @ \o <<Event("check_size", 0), Reported(95),
                                      Event("write", 0), Reported(100)>>]
          ELSE IF placeholder_needed(pdf_call.images_extracted)
          THEN [pdf_call EXCEPT !.pc = "Done", !.files = @ \o <<<<0, 0>>>>,
                                !.log = @ \o <<Event("write", 0), Reported(100)>>]
          ELSE [pdf_call EXCEPT !.pc = "Done", !.log = @ \o <<Reported(100)>>]
    /\ UNCHANGED outsidePdf

\* image.py ImageConverter.convert up to the handler: the format and input
\* checks, progress 10, the load, progress 30, resize, transparency,
\* progress 60.
ImagePrepare ==
    /\ pdf_call.op = "image" /\ pdf_call.pc = "Start"
    /\ pdf_call' =
          IF Lower(pdf_call.output_format) \notin IMAGE_SUPPORTED_OUTPUT_FORMATS
          THEN Fail(pdf_call, <<>>, "Unsupported output format")
          ELSE IF ~pdf_call.input.exists THEN Fail(pdf_call, <<>>, "Input file not found")
          ELSE IF load_image(pdf_call.input) # ""
          THEN Fail(pdf_call, <<Reported(10)>>, load_image(pdf_call.input))
          ELSE IF pdf_call.resize # <<>> /\ resize_image(pdf_call.resize) # ""
          THEN Fail(pdf_call, <<Reported(10), Event("load", 0), Reported(30)>>,
                    resize_image(pdf_call.resize))
          ELSE [pdf_call EXCEPT
                  !.pc = "Processing",
                  !.log = @ \o <<Reported(10), Event("load", 0), Reported(30)>>
                            \o (IF pdf_call.resize # <<>> THEN <<Event("resize", 0)>> ELSE <<>>)
                            \o (IF pdf_call.output_format \in NON_TRANSPARENT_FORMATS
                                THEN <<Event("flatten", 0)>> ELSE <<>>)
                            \o <<Reported(60)>>]
    /\ UNCHANGED outsidePdf

\* handler(image, output_path, options); progress 100.
ImageSave ==
    /\ pdf_call.op = "image" /\ pdf_call.pc = "Processing"
    /\ pdf_call' =
          IF pdf_call.write_fails THEN Fail(pdf_call, <<>>, "Conversion failed")
          ELSE [pdf_call EXCEPT !.pc = "Done", !.files = <<<<0, 0>>>>,
                                !.log = @ \o <<Event("write", 0), Reported(100)>>]
    /\ UNCHANGED outsidePdf

\* data.py DataConverter.convert up to the writer: the format, input and
\* size checks, progress 10, the read, the row and column limits,
\* progress 50, the transformations, progress 75.
DataPrepare ==
    /\ pdf_call.op = "data" /\ pdf_call.pc = "Start"
    /\ pdf_call' =
          IF Lower(pdf_call.input.path.ext) \notin DATA_SUPPORTED_INPUT_FORMATS
          THEN Fail(pdf_call, <<>>, "Unsupported input format")
          ELSE IF Lower(pdf_call.output_format) \notin DATA_SUPPORTED_OUTPUT_FORMATS
          THEN Fail(pdf_call, <<>>, "Unsupported output format")
          ELSE IF ~pdf_call.input.exists THEN Fail(pdf_call, <<>>, "Input file not found")
          ELSE IF pdf_call.input.content.size > MAX_FILE_SIZE_MB * MB
          THEN Fail(pdf_call, <<>>, "File size exceeds maximum")
          ELSE IF pdf_call.input.content.kind # "table"
          THEN Fail(pdf_call, <<Reported(10)>>, "Failed to parse input file")
          ELSE IF validate_dataframe(pdf_call.input.content) # ""
          THEN Fail(pdf_call, <<Reported(10), Event("read", 0)>>,
                    validate_dataframe(pdf_call.input.content))
          ELSE [pdf_call EXCEPT
                  !.pc = "Processing",
                  !.log = @ \o <<Reported(10), Event("read", 0), Reported(50),
                                 Event("transform", 0), Reported(75)>>]
    /\ UNCHANGED outsidePdf

\* writer(df, output_path, options); progress 100.
DataWrite ==
    /\ pdf_call.op = "data" /\ pdf_call.pc = "Processing"
    /\ pdf_call' =
          IF pdf_call.write_fails THEN Fail(pdf_call, <<>>, "Conversion failed")
          ELSE [pdf_call EXCEPT !.pc = "Done", !.files = <<<<0, 0>>>>,
                                !.log = @ \o <<Event("write", 0), Reported(100)>>]
    /\ UNCHANGED outsidePdf

\* Text sizes of a page: none, a little, more than the whole limit.
PageTextSizes == {0, 1, MAX_TEXT_SIZE_MB * MB}

PdfRuns ==
    {Run(op, inp, "png", r, <<>>, texts, images, FALSE) :
        op \in PdfOps,
        inp \in {File(Path("a", "pdf"), PdfContent(n, 0, 0)) :
                    n \in (0..MaxPages) \cup {MAX_PDF_PAGES, MAX_PDF_PAGES + 1}}
                \cup {File(Path("bad", "pdf"), Garbage(1))},
        r \in {NoRange, <<0, 2>>, <<1, 1>>, <<-1, MaxPages + 2>>, <<2, 1>>},
        texts \in [1..MaxPages -> PageTextSizes],
        images \in [1..MaxPages -> 0..MaxImages]}

\* The runs started: a text extraction looks at the texts only, an image
\* extraction at the images only, and a PDF at the page limit is read
\* through a page range.
StepRuns ==
    {run \in PdfRuns :
        /\ run.op = "pdf_text" => \A k \in 1..MaxPages : run.images[k] = 0
        /\ run.op = "pdf_images" => \A k \in 1..MaxPages : run.texts[k] = 0
        /\ run.input.content.pages >= MAX_PDF_PAGES => run.page_range # NoRange}
    \cup {Run("image", inp, g, NoRange, r, [k \in 1..MaxPages |-> 0],
              [k \in 1..MaxPages |-> 0], w) :
            inp \in {File(Path("a", "png"), ImageContent(1, 1)),
                     File(Path("a", "png"), ImageContent(MAX_DIMENSION + 1, 1)),
                     File(Path("bad", "png"), Garbage(1)), Missing(Path("gone", "png"))},
            g \in {"jpg", "png", "tiff"}, r \in {<<>>, <<2, 2>>, <<0, 2>>}, w \in BOOLEAN}
    \cup {Run("data", inp, g, NoRange, <<>>, [k \in 1..MaxPages |-> 0],
              [k \in 1..MaxPages |-> 0], w) :
            inp \in {File(Path("a", "csv"), TableContent(1, 1, 1)),
                     File(Path("a", "csv"), TableContent(1, MAX_ROWS + 1, 1)),
                     File(Path("a", "csv"), TableContent(MAX_FILE_SIZE_MB * MB + 1, 1, 1)),
                     File(Path("bad", "json"), Garbage(1)), Missing(Path("gone", "csv")),
                     File(Path("a", "txt"), TextContent(1))},
            g \in {"json", "pdf"}, w \in BOOLEAN}

InitSteps ==
    /\ pdf_call \in StepRuns
    /\ CoreIdle /\ ApiIdle /\ PipeIdle /\ ImageIdle /\ DataIdle

NextSteps ==
    \/ PdfOpen \/ PdfCount \/ PdfValidate \/ PdfPage \/ PdfEndOfPages \/ PdfFinish
    \/ ImagePrepare \/ ImageSave \/ DataPrepare \/ DataWrite

SpecSteps == InitSteps /\ [][NextSteps]_vars


(* ------------- data.py / converters.py: reading a CSV file ------------ *)
\* The bytes of a CSV file by what can decode them: plain ASCII, multi-byte
\* UTF-8, or single high bytes that are not valid UTF-8.
ByteClasses == {"ascii", "utf8", "high"}

Encodings == {"utf-8", "ascii", "latin-1"}

\* bytes.decode(encoding) does not raise UnicodeDecodeError; latin-1 maps
\* every byte to a character.
decodes(bytes, encoding) ==
    CASE encoding = "latin-1" -> TRUE
      [] encoding = "utf-8" -> bytes \in {"ascii", "utf8"}
      [] OTHER -> bytes = "ascii"

\* What the tokenizer makes of the decoded text.
parse_error(structure) ==
    CASE structure = "table" -> "None"
      [] structure = "empty" -> "EmptyDataError"
      [] OTHER -> "ParserError"

\* The exceptions one pd.read_csv call can raise for a file; a file that
\* neither decodes nor tokenizes raises whichever the reader meets first.
read_csv_raises(bytes, structure, encoding) ==
    (IF decodes(bytes, encoding) THEN {} ELSE {"UnicodeDecodeError"})
    \cup (IF parse_error(structure) = "None" THEN {} ELSE {parse_error(structure)})

\* The except UnicodeDecodeError clause of the backend _read_csv; the core
\* csv_to_json has one read inside the outer try.
retry_on(impl, exc) == impl = "backend" /\ exc = "UnicodeDecodeError"

\* The message the caller gets for an exception that leaves the read.
csv_failure(impl, exc) ==
    IF impl = "core" THEN "Failure"
    ELSE CASE exc = "EmptyDataError" ->
                  "DataConversionError: Input file is empty or contains no valid data"
           [] exc = "ParserError" -> "DataConversionError: Failed to parse input file"
           [] OTHER -> "DataConversionError: Conversion failed"

CsvCall(impl, bytes, structure, encoding, delimiter, header) ==
    [impl |-> impl, bytes |-> bytes, structure |-> structure, encoding |-> encoding,
     delimiter |-> delimiter, header |-> header,
     pc |-> "Start", reads |-> <<>>, raised |-> <<>>, used |-> "None",
     error |-> "None", written |-> FALSE]

CsvCalls ==
    {CsvCall(impl, bytes, structure, encoding, delimiter, header) :
        impl \in {"core", "backend"}, bytes \in ByteClasses,
        structure \in {"table", "empty", "open_quote"}, encoding \in Encodings,
        delimiter \in {",", ";"}, header \in BOOLEAN}

\* An empty file has no bytes to decode.
InitCsv ==
    /\ data_call \in {c \in CsvCalls : c.structure = "empty" => c.bytes = "ascii"}
    /\ CoreIdle /\ ApiIdle /\ PipeIdle /\ PdfIdle /\ ImageIdle

\* pd.read_csv(path, encoding=encoding, ...): the first read.
CsvRead ==
    /\ data_call.pc = "Start"
    /\ LET raises == read_csv_raises(data_call.bytes, data_call.structure,
                                     data_call.encoding)
           read == [data_call EXCEPT !.reads = <<data_call.encoding>>]
       IN  IF raises = {}
           THEN data_call' = [read EXCEPT !.pc = "Read", !.used = data_call.encoding]
           ELSE \E exc \in raises :
                   data_call' =
                      IF retry_on(data_call.impl, exc)
                      THEN [read EXCEPT !.pc = "Retry", !.raised = <<exc>>]
                      ELSE [read EXCEPT !.pc = "Failed", !.raised = <<exc>>,
                                        !.error = csv_failure(data_call.impl, exc)]
    /\ UNCHANGED outsideData

\* pd.read_csv(path, encoding="latin-1", ...): the read inside the handler.
CsvRetry ==
    /\ data_call.pc = "Retry"
    /\ LET raises == read_csv_raises(data_call.bytes, data_call.structure, "latin-1")
           read == [data_call EXCEPT !.reads = Append(data_call.reads, "latin-1")]
       IN  IF raises = {}
           THEN data_call' = [read EXCEPT !.pc = "Read", !.used = "latin-1"]
           ELSE \E exc \in raises :
                   data_call' = [read EXCEPT !.pc = "Failed",
                                             !.raised = Append(data_call.raised, exc),
                                             !.error = csv_failure(data_call.impl, exc)]
    /\ UNCHANGED outsideData

\* The rest of the conversion: the table that was read is written out.
CsvFinish ==
    /\ data_call.pc = "Read"
    /\ data_call' = [data_call EXCEPT !.pc = "Done", !.written = TRUE]
    /\ UNCHANGED outsideData

NextCsv == CsvRead \/ CsvRetry \/ CsvFinish

SpecCsv == InitCsv /\ [][NextCsv]_vars

(* ---------------------- cli.py: convert command ----------------------- *)
MaxCliFiles == 2

\* What one resolved input file is: the converter its extensions select,
\* what the converter makes of it, and the state of its output path.
CliFile(conv, result, out) == [conv |-> conv, result |-> result, out |-> out]

\* determine_converter_type(input_ext, output_ext) with the document branch
\* split by the conversions convert_single_file knows.
ConverterTypes == {"image", "data", "pdf_text", "pdf_images", "document_other", "None"}

\* The call convert_single_file makes raises: ImageConverter.convert takes
\* no quality/width/height/scale keyword and DataConverter.convert no
\* pretty keyword, so both calls raise TypeError; the PDF methods accept
\* their keywords and return a ConversionResult instead of raising.
call_raises(conv) == conv \in {"image", "data"}

\* Variant of convert_single_file that looks at the result the converter returns.
convert_single_file_ChecksResult(file) ==
    /\ file.conv \in {"pdf_text", "pdf_images"}
    /\ file.result = SUCCESS

\* convert_single_file: the success flag of the returned pair.
convert_single_file(file) ==
    CASE file.conv = "None" -> FALSE
      [] file.conv = "document_other" -> FALSE
      [] call_raises(file.conv) -> FALSE
      [] OTHER -> TRUE

\* The exit code after the loop; falling off the end of the command is 0.
exit_code(stats) ==
    IF stats.failed > 0 /\ stats.successful = 0 THEN 1
    ELSE IF stats.failed > 0 THEN 2
    ELSE 0

ConversionStats == [successful |-> 0, failed |-> 0, skipped |-> 0]

CliFiles ==
    {CliFile(conv, result, out) :
        conv \in ConverterTypes, result \in {SUCCESS, FAILURE},
        out \in {"free", "exists", "blocked"}}

\* The files an invocation can meet: only a PDF method can return SUCCESS.
CliInputs ==
    {f \in CliFiles : f.conv \notin {"pdf_text", "pdf_images"} => f.result = FAILURE}

CliCall(files, is_batch, input_ok, output_ok, overwrite, confirm) ==
    [files |-> files, is_batch |-> is_batch, input_ok |-> input_ok,
     output_ok |-> output_ok, overwrite |-> overwrite, confirm |-> confirm,
     pc |-> "Start", idx |-> 1, stats |-> ConversionStats,
     converted |-> <<>>, exit |-> -1]

\* A glob pattern resolves to any number of files, a plain path to one.
InitCli ==
    /\ \E n \in 0..MaxCliFiles, is_batch, input_ok, output_ok, overwrite, confirm \in BOOLEAN :
          \E files \in [1..n -> CliInputs] :
             /\ ~is_batch => n = 1 /\ output_ok
             /\ is_batch => input_ok /\ confirm
             /\ pipe_call = CliCall(files, is_batch, input_ok, output_ok, overwrite, confirm)
    /\ CoreIdle /\ ApiIdle /\ PdfIdle /\ ImageIdle /\ DataIdle

\* Input resolution and output directory handling before the loop.
CliResolve ==
    /\ pipe_call.pc = "Start"
    /\ pipe_call' =
          IF pipe_call.is_batch /\ pipe_call.files = <<>>
          THEN [pipe_call EXCEPT !.pc = "Exited", !.exit = 1]
          ELSE IF ~pipe_call.is_batch /\ ~pipe_call.input_ok
          THEN [pipe_call EXCEPT !.pc = "Exited", !.exit = 1]
          ELSE IF pipe_call.is_batch /\ ~pipe_call.output_ok
          THEN [pipe_call EXCEPT !.pc = "Exited", !.exit = 1]
          ELSE [pipe_call EXCEPT !.pc = "Loop"]
    /\ UNCHANGED outsidePipe

\* One iteration of the loop over input_files.
CliConvertFile ==
    /\ pipe_call.pc = "Loop"
    /\ pipe_call.idx <= Len(pipe_call.files)
    /\ LET file == pipe_call.files[pipe_call.idx]
           next == [pipe_call EXCEPT !.idx = pipe_call.idx + 1]
       IN  pipe_call' =
              IF file.out = "exists" /\ ~pipe_call.overwrite /\ ~pipe_call.is_batch
                 /\ ~pipe_call.confirm
              THEN [pipe_call EXCEPT !.pc = "Exited", !.exit = 0]
              ELSE IF file.out = "exists" /\ ~pipe_call.overwrite /\ pipe_call.is_batch
              THEN [next EXCEPT !.stats.skipped = pipe_call.stats.skipped + 1,
                                !.converted = Append(pipe_call.converted, "skipped")]
              ELSE IF file.out = "blocked"
              THEN [next EXCEPT !.stats.failed = pipe_call.stats.failed + 1,
                                !.converted = Append(pipe_call.converted, FAILURE)]
              ELSE IF convert_single_file(file)
              THEN [next EXCEPT !.stats.successful = pipe_call.stats.successful + 1,
                                !.converted = Append(pipe_call.converted, file.result)]
              ELSE [next EXCEPT !.stats.failed = pipe_call.stats.failed + 1,
                                !.converted = Append(pipe_call.converted, FAILURE)]
    /\ UNCHANGED outsidePipe

\* After the loop: stats.display() and the exit code.
CliExit ==
    /\ pipe_call.pc = "Loop"
    /\ pipe_call.idx > Len(pipe_call.files)
    /\ pipe_call' = [pipe_call EXCEPT !.pc = "Finished",
                                      !.exit = exit_code(pipe_call.stats)]
    /\ UNCHANGED outsidePipe

NextCli == CliResolve \/ CliConvertFile \/ CliExit

SpecCli == InitCli /\ [][NextCli]_vars

(* ------- backend/main.py: requests and the cleanup thread in time ------ *)
FILE_EXPIRY_SECONDS == 3600

\* The clock advances by one expiry period at a time, until an entry made
\* at the start has passed its expiry: ages are 0, exactly the expiry, and
\* beyond it.
TickSeconds == FILE_EXPIRY_SECONDS

Horizon == 2 * FILE_EXPIRY_SECONDS

\* File ids handed out by generate_file_id in one behaviour.
MaxFiles == 3

\* A file_registry entry as the sweep and the requests look at it;
\* source_file_id is 0 for an upload.
TimedEntry(source_file_id, upload_timestamp) ==
    [source_file_id |-> source_file_id, upload_timestamp |-> upload_timestamp]

\* The answer to a request: HTTP status, detail, and the progress fields of
\* a ProgressResponse.
ServerReply(op, file_id, status, detail, body) ==
    [op |-> op, file_id |-> file_id, status |-> status, detail |-> detail, body |-> body]

\* dict.pop(key, None)
pop(d, key) == [k \in DOMAIN d \ {key} |-> d[k]]

\* Variant of expired that also takes the entries exactly at the expiry age.
expired_AtAge(registry, current_time) ==
    {id \in DOMAIN registry :
        current_time - registry[id].upload_timestamp >= FILE_EXPIRY_SECONDS}

\* The ids the sweep finds expired at current_time.
expired(registry, current_time) ==
    {id \in DOMAIN registry :
        current_time - registry[id].upload_timestamp > FILE_EXPIRY_SECONDS}

\* cleanup_old_files(directory, max_age_seconds): the directories that stay.
cleanup_old_files(directory, current_time) ==
    [id \in {i \in DOMAIN directory :
                ~(current_time - directory[i] > FILE_EXPIRY_SECONDS)} |-> directory[id]]

\* The handlers are coroutines without an await after their first lock
\* section, so the event loop runs one request at a time.
LoopFree == convert_call = Idle

InitServer ==
    /\ ApiIdle
    /\ CoreIdle /\ PipeIdle /\ PdfIdle /\ ImageIdle /\ DataIdle

\* time passes
Tick ==
    /\ now < Horizon
    /\ now' = now + TickSeconds
    /\ UNCHANGED <<registry_lock, convert_call, sweep_call, apiVars,
                   coreVars, callVars, guiVars>>

\* upload_file with an accepted file: saved, then registered under the lock.
ServerUpload ==
    /\ LoopFree /\ registry_lock = "free"
    /\ next_id <= MaxFiles
    /\ uploads' = (next_id :> now) @@ uploads
    /\ file_registry' = (next_id :> TimedEntry(0, now)) @@ file_registry
    /\ next_id' = next_id + 1
    /\ response' = ServerReply("upload", next_id, 200, "", ConversionProgress)
    /\ UNCHANGED <<progress_registry, outputs, requests, serverVars,
                   coreVars, callVars, guiVars>>

\* convert_file up to the creation of the output directory.
ConvertBegin ==
    /\ LoopFree /\ registry_lock = "free"
    /\ \E file_id \in 1..MaxFiles, valid \in BOOLEAN :
          IF file_id \notin DOMAIN file_registry
          THEN /\ response' = ServerReply("convert", file_id, 404, "File not found",
                                          ConversionProgress)
               /\ UNCHANGED <<convert_call, outputs, next_id>>
          ELSE IF ~(IF file_registry[file_id].source_file_id = 0
                    THEN file_id \in DOMAIN uploads ELSE file_id \in DOMAIN outputs)
          THEN /\ response' = ServerReply("convert", file_id, 404,
                                          "File no longer available", ConversionProgress)
               /\ UNCHANGED <<convert_call, outputs, next_id>>
          ELSE IF ~valid
          THEN /\ response' = ServerReply("convert", file_id, 400, "Cannot convert",
                                          ConversionProgress)
               /\ UNCHANGED <<convert_call, outputs, next_id>>
          ELSE /\ next_id <= MaxFiles
               /\ convert_call' = [state |-> "convert", file_id |-> file_id,
                                   output_file_id |-> next_id, pc |-> "init",
                                   pipeline |-> "running", reports |-> 0]
               /\ outputs' = (next_id :> now) @@ outputs
               /\ next_id' = next_id + 1
               /\ UNCHANGED response
    /\ UNCHANGED <<file_registry, progress_registry, uploads, requests, now,
                   registry_lock, sweep_call, coreVars, callVars, guiVars>>

\* convert_file: progress_registry[file_id] = progress, under the lock.
ConvertInit ==
    /\ convert_call # Idle /\ convert_call.pc = "init"
    /\ registry_lock = "free"
    /\ progress_registry' =
          (convert_call.file_id :>
              update(ConversionProgress, [status |-> "processing", progress |-> 0,
                                          message |-> "Starting conversion"]))
          @@ progress_registry
    /\ convert_call' = [convert_call EXCEPT !.pc = "pipeline"]
    /\ UNCHANGED <<file_registry, uploads, outputs, next_id, requests, response, now,
                   registry_lock, sweep_call, coreVars, callVars, guiVars>>

\* update_progress, called by the running pipeline.
ConvertCallback ==
    /\ convert_call # Idle /\ convert_call.pc = "pipeline"
    /\ convert_call.reports = 0
    /\ registry_lock = "free"
    /\ progress_registry' =
          IF convert_call.file_id \in DOMAIN progress_registry
          THEN [progress_registry EXCEPT
                   ![convert_call.file_id] =
                       update(@, [progress |-> 50, message |-> "Converting"])]
          ELSE progress_registry
    /\ convert_call' = [convert_call EXCEPT !.reports = 1]
    /\ UNCHANGED <<file_registry, uploads, outputs, next_id, requests, response, now,
                   registry_lock, sweep_call, coreVars, callVars, guiVars>>

\* converter.convert returns the output path or raises.
ConvertPipelineEnds ==
    /\ convert_call # Idle /\ convert_call.pc = "pipeline"
    /\ \E end \in {"returned", "ConversionError", "Exception"} :
          convert_call' = [convert_call EXCEPT
                              !.pipeline = end,
                              !.pc = IF end = "returned" THEN "register" ELSE "failed"]
    /\ UNCHANGED <<apiVars, now, registry_lock, sweep_call, coreVars, callVars, guiVars>>

\* convert_file after the pipeline returned: the output is registered and
\* the progress record completed in one lock section; the subscript raises
\* KeyError when the record is gone, which the last handler answers.
ConvertRegister ==
    /\ convert_call # Idle /\ convert_call.pc = "register"
    /\ registry_lock = "free"
    /\ file_registry' =
          (convert_call.output_file_id :> TimedEntry(convert_call.file_id, now))
          @@ file_registry
    /\ IF convert_call.file_id \in DOMAIN progress_registry
       THEN /\ progress_registry' =
                  [progress_registry EXCEPT
                      ![convert_call.file_id] =
                          update(@, [status |-> "completed", progress |-> 100,
                                     message |-> "Conversion complete",
                                     output_file_id |-> convert_call.output_file_id])]
            /\ response' = ServerReply("convert", convert_call.file_id, 200,
                                       "Conversion successful",
                                       [ConversionProgress EXCEPT
                                           !.status = "completed",
                                           !.output_file_id = convert_call.output_file_id])
            /\ convert_call' = Idle
       ELSE /\ convert_call' = [convert_call EXCEPT !.pc = "failed"]
            /\ UNCHANGED <<progress_registry, response>>
    /\ UNCHANGED <<uploads, outputs, next_id, requests, now, registry_lock, sweep_call,
                   coreVars, callVars, guiVars>>

\* The except clauses of convert_file.
ConvertFailed ==
    /\ convert_call # Idle /\ convert_call.pc = "failed"
    /\ registry_lock = "free"
    /\ progress_registry' =
          IF convert_call.file_id \in DOMAIN progress_registry
          THEN [progress_registry EXCEPT
                   ![convert_call.file_id] =
                       update(@, [status |-> "failed", progress |-> 0,
                                  message |-> "Conversion failed", error |-> "error"])]
          ELSE progress_registry
    /\ response' = ServerReply("convert", convert_call.file_id,
                               IF convert_call.pipeline = "ConversionError" THEN 400 ELSE 500,
                               "Conversion failed", ConversionProgress)
    /\ convert_call' = Idle
    /\ UNCHANGED <<file_registry, uploads, outputs, next_id, requests, now,
                   registry_lock, sweep_call, coreVars, callVars, guiVars>>

\* Variant of get_progress without the look into the file registry.
get_progress_RecordOnly(file_id) ==
    IF file_id \in DOMAIN progress_registry
    THEN ServerReply("progress", file_id, 200, "", progress_registry[file_id])
    ELSE ServerReply("progress", file_id, 404, "File not found", ConversionProgress)

\* get_progress: the answer to a poll for file_id.
get_progress(file_id) ==
    IF file_id \in DOMAIN progress_registry
    THEN ServerReply("progress", file_id, 200, "", progress_registry[file_id])
    ELSE IF file_id \in DOMAIN file_registry
    THEN ServerReply("progress", file_id, 200, "",
                     [ConversionProgress EXCEPT !.message = "No conversion in progress"])
    ELSE ServerReply("progress", file_id, 404, "File not found", ConversionProgress)

GetProgress ==
    /\ LoopFree /\ registry_lock = "free"
    /\ \E file_id \in 1..MaxFiles : response' = get_progress(file_id)
    /\ UNCHANGED <<file_registry, progress_registry, uploads, outputs, next_id, requests,
                   serverVars, coreVars, callVars, guiVars>>

\* delete_file
DeleteFile ==
    /\ LoopFree /\ registry_lock = "free"
    /\ \E file_id \in 1..MaxFiles :
          IF file_id \notin DOMAIN file_registry
          THEN /\ response' = ServerReply("delete", file_id, 404, "File not found",
                                          ConversionProgress)
               /\ UNCHANGED <<file_registry, progress_registry, uploads, outputs>>
          ELSE /\ IF file_registry[file_id].source_file_id = 0
                  THEN uploads' = pop(uploads, file_id) /\ UNCHANGED outputs
                  ELSE outputs' = pop(outputs, file_id) /\ UNCHANGED uploads
               /\ file_registry' = pop(file_registry, file_id)
               /\ progress_registry' = pop(progress_registry, file_id)
               /\ response' = ServerReply("delete", file_id, 200, "deleted",
                                          ConversionProgress)
    /\ UNCHANGED <<next_id, requests, serverVars, coreVars, callVars, guiVars>>

\* cleanup_task wakes up: cleanup_old_files on both directories.
SweepFiles ==
    /\ sweep_call = Idle
    /\ uploads' = cleanup_old_files(uploads, now)
    /\ outputs' = cleanup_old_files(outputs, now)
    /\ sweep_call' = [state |-> "sweep", pc |-> "lock", current_time |-> now,
                      expired_ids |-> {}, files_then |-> EmptyMap,
                      progress_then |-> EmptyMap]
    /\ UNCHANGED <<file_registry, progress_registry, next_id, requests, response, now,
                   registry_lock, convert_call, coreVars, callVars, guiVars>>

\* cleanup_task: current_time = time.time(); with registry_lock: the scan.
\* files_then and progress_then keep what the registries held when the lock
\* was taken.
SweepScan ==
    /\ sweep_call # Idle /\ sweep_call.pc = "lock"
    /\ registry_lock = "free"
    /\ registry_lock' = "sweep"
    /\ sweep_call' = [sweep_call EXCEPT
                         !.pc = "pop", !.current_time = now,
                         !.expired_ids = expired(file_registry, now),
                         !.files_then = file_registry,
                         !.progress_then = progress_registry]
    /\ UNCHANGED <<apiVars, now, convert_call, coreVars, callVars, guiVars>>

\* cleanup_task: one iteration of "for file_id in expired_ids".
SweepPop ==
    /\ sweep_call # Idle /\ sweep_call.pc = "pop"
    /\ sweep_call.expired_ids # {}
    /\ LET file_id == CHOOSE id \in sweep_call.expired_ids :
                          \A other \in sweep_call.expired_ids : id <= other
       IN  /\ file_registry' = pop(file_registry, file_id)
           /\ progress_registry' = pop(progress_registry, file_id)
           /\ sweep_call' = [sweep_call EXCEPT !.expired_ids = @ \ {file_id}]
    /\ UNCHANGED <<uploads, outputs, next_id, requests, response, now, registry_lock,
                   convert_call, coreVars, callVars, guiVars>>

\* cleanup_task leaves the lock section and sleeps again.
SweepDone ==
    /\ sweep_call # Idle /\ sweep_call.pc = "pop"
    /\ sweep_call.expired_ids = {}
    /\ registry_lock' = "free"
    /\ sweep_call' = Idle
    /\ UNCHANGED <<apiVars, now, convert_call, coreVars, callVars, guiVars>>

NextServer ==
    \/ Tick \/ ServerUpload \/ ConvertBegin \/ ConvertInit \/ ConvertCallback
    \/ ConvertPipelineEnds \/ ConvertRegister \/ ConvertFailed \/ GetProgress
    \/ DeleteFile \/ SweepFiles \/ SweepScan \/ SweepPop \/ SweepDone

SpecServer == InitServer /\ [][NextServer]_vars

(* ------- document.py: embedded images of a page, one by one ----------- *)
\* Embedded images on one page, at most.
MaxEmbedded == 2

\* An embedded image by what the extraction meets in it:
\*   "ok"         DCTDecode stream that Pillow opens and decodes,
\*   "bad_header" DCTDecode stream Image.open cannot identify,
\*   "bad_body"   DCTDecode stream with a readable header and broken image
\*                data: Image.open is lazy and succeeds, the decode fails
\*                when the pixels are first needed,
\*   "exact"      FlateDecode data of exactly width * height * channels bytes,
\*   "short"      FlateDecode data shorter than that,
\*   "long"       FlateDecode data longer than that,
\*   "filter"     a stream with another filter.
EmbeddedKinds == {"ok", "bad_header", "bad_body", "exact", "short", "long", "filter"}

\* _extract_page_images appends the image to its list.
extracted(kind) == kind \in {"ok", "bad_body", "exact", "long"}

\* _extract_page_images logs a warning and goes on to the next image.
warned(kind) == kind \in {"bad_header", "short", "filter"}

\* image.save(output_file, ...) decodes the pixels and raises when it cannot.
save_raises(kind) == kind = "bad_body"

\* _extract_page_images(page, page_num): the images returned, in order.
extract_page_images(page) ==
    LET Kept(kind) == extracted(kind)
    IN  SelectSeq(page, Kept)

\* The images of a page saved before the first save that raises.
RECURSIVE SavedBefore(_, _)
SavedBefore(images, n) ==
    IF n > Len(images) \/ save_raises(images[n]) THEN n - 1 ELSE SavedBefore(images, n + 1)

ExtractionPages ==
    UNION {[1..n -> EmbeddedKinds] : n \in 0..MaxEmbedded}

ExtractionCall(pages) ==
    [state |-> "extract", pages |-> pages, pc |-> "Processing", page_num |-> 0,
     files |-> <<>>, warnings |-> <<>>, images_extracted |-> 0, error |-> "None"]

InitExtract ==
    /\ \E first, second \in ExtractionPages, n \in {1, 2} :
          pdf_call = ExtractionCall(IF n = 1 THEN <<first>> ELSE <<first, second>>)
    /\ CoreIdle /\ ApiIdle /\ PipeIdle /\ ImageIdle /\ DataIdle

\* One iteration of the page loop of _convert_pdf_to_images.
ExtractPage ==
    /\ pdf_call.pc = "Processing"
    /\ pdf_call.page_num < Len(pdf_call.pages)
    /\ LET page_num == pdf_call.page_num
           page == pdf_call.pages[page_num + 1]
           page_images == extract_page_images(page)
           saved == SavedBefore(page_images, 1)
           names == [img_idx \in 1..saved |->
                        [page |-> page_num + 1, img |-> img_idx, kind |-> page_images[img_idx]]]
           skipped == SelectSeq([k \in DOMAIN page |->
                                   [page |-> page_num + 1, obj |-> k, kind |-> page[k]]],
                                LAMBDA w : warned(w.kind))
       IN  pdf_call' =
              [pdf_call EXCEPT
                  !.files = pdf_call.files \o names,
                  !.warnings = pdf_call.warnings \o skipped,
                  !.images_extracted = pdf_call.images_extracted + saved,
                  !.page_num = IF saved = Len(page_images) THEN page_num + 1 ELSE page_num,
                  !.pc = IF saved = Len(page_images) THEN "Processing" ELSE "Failed",
                  !.error = IF saved = Len(page_images) THEN "None"
                            ELSE "DocumentConversionError: Failed to convert PDF to images"]
    /\ UNCHANGED outsidePdf

\* After the loop: the placeholder when nothing was extracted, progress 100.
ExtractFinish ==
    /\ pdf_call.pc = "Processing"
    /\ pdf_call.page_num = Len(pdf_call.pages)
    /\ pdf_call' =
          [pdf_call EXCEPT
              !.pc = "Done",
              !.files = IF placeholder_needed(pdf_call.images_extracted)
                        THEN <<[page |-> 0, img |-> 0, kind |-> "placeholder"]>>
                        ELSE pdf_call.files]
    /\ UNCHANGED outsidePdf

NextExtract == ExtractPage \/ ExtractFinish

SpecExtract == InitExtract /\ [][NextExtract]_vars

(* ------------- backend/utils.py: get_safe_filename on characters ------ *)
\* A file name as the sequence of its characters: the separators, NUL, a
\* dot, a blank and an ordinary letter.
FilenameChars == {"/", "\\", "NUL", ".", " ", "a"}

MaxNameLen == 4

\* max_length of get_safe_filename is 255; here it is scaled down so that
\* names of at most MaxNameLen characters reach the truncation, including
\* an extension longer than max_length.
max_length == 2

Filenames == UNION {[1..n -> FilenameChars] : n \in 0..MaxNameLen}

\* str.replace(old, new) for single characters.
replace(s, old, new) == [i \in 1..Len(s) |-> IF s[i] = old THEN new ELSE s[i]]

\* str.replace(old, "")
remove(s, old) == SelectSeq(s, LAMBDA c : c # old)

\* Variant of strip that strips nothing.
strip_Nothing(s, chars) == s

\* str.strip(chars): drop the leading and trailing characters in chars.
strip(s, chars) ==
    LET keep == {i \in 1..Len(s) : s[i] \notin chars}
    IN  IF keep = {} THEN <<>>
        ELSE SubSeq(s, CHOOSE i \in keep : \A j \in keep : i <= j,
                       CHOOSE i \in keep : \A j \in keep : i >= j)

\* s[:n], where a negative n counts from the end.
slice_to(s, n) ==
    IF n >= 0 THEN SubSeq(s, 1, Min(n, Len(s)))
    ELSE SubSeq(s, 1, Max(Len(s) + n, 0))

\* os.path.splitext for a name without separators: the extension starts at
\* the last dot unless only dots come before it.
splitext(p) ==
    LET dots == {i \in 1..Len(p) : p[i] = "."}
    IN  IF dots = {} THEN <<p, <<>>>>
        ELSE LET d == CHOOSE i \in dots : \A j \in dots : i >= j
             IN  IF \E i \in 1..(d - 1) : p[i] # "."
                 THEN <<SubSeq(p, 1, d - 1), SubSeq(p, d, Len(p))>>
                 ELSE <<p, <<>>>>

unnamed_file == <<"unnamed_file">>

\* get_safe_filename(original_filename) on the characters of the name.
get_safe_filename_str(original_filename) ==
    LET replaced == remove(replace(replace(original_filename, "/", "_"), "\\", "_"), "NUL")
        stripped == strip(strip(replaced, {" "}), {"."})
        name == splitext(stripped)[1]
        ext == splitext(stripped)[2]
        filename == IF Len(stripped) > max_length
                    THEN slice_to(name, max_length - Len(ext)) \o ext
                    ELSE stripped
    IN  IF filename = <<>> THEN unnamed_file ELSE filename

\* Path.__truediv__: the components of directory / name.  A name is split
\* at its separators ('/' everywhere, '\' too on Windows), empty and '.'
\* components are dropped, and a name that starts with a separator is
\* absolute and replaces the directory.
path_parts(name) ==
    LET seps == {0, Len(name) + 1} \cup {i \in 1..Len(name) : name[i] \in {"/", "\\"}}
        pieces == {<<i, j>> \in seps \X seps :
                      i < j /\ \A k \in seps : ~(i < k /\ k < j)}
        ordered[n \in 0..Cardinality(pieces)] ==
            IF n = 0 THEN <<>>
            ELSE LET p == CHOOSE q \in pieces :
                              Cardinality({r \in pieces : r[1] < q[1]}) = n - 1
                 IN  Append(ordered[n - 1], SubSeq(name, p[1] + 1, p[2] - 1))
    IN  SelectSeq(ordered[Cardinality(pieces)], LAMBDA c : c # <<>> /\ c # <<".">>)

truediv(directory, name) ==
    IF name # <<>> /\ name[1] \in {"/", "\\"}
    THEN path_parts(name)
    ELSE directory \o path_parts(name)

\* UPLOAD_DIR / file_id as the components below the temporary directory.
upload_directory == <<<<"fileforge">>, <<"uploads">>, <<"file_id">>>>

NameCall(filename) ==
    [filename |-> filename, pc |-> "start", safe_filename |-> <<>>, file_path |-> <<>>]

InitName ==
    /\ \E filename \in Filenames : data_call = NameCall(filename)
    /\ CoreIdle /\ ApiIdle /\ PipeIdle /\ PdfIdle /\ ImageIdle

\* A direct call of get_safe_filename with any string.
CallGetSafeFilename ==
    /\ data_call.pc = "start"
    /\ data_call' = [data_call EXCEPT
                        !.pc = "returned",
                        !.safe_filename = get_safe_filename_str(data_call.filename)]
    /\ UNCHANGED outsideData

\* upload_file: an upload without a filename is answered 400.
UploadNoFilename ==
    /\ data_call.pc = "start"
    /\ data_call.filename = <<>>
    /\ data_call' = [data_call EXCEPT !.pc = "rejected"]
    /\ UNCHANGED outsideData

\* upload_file: safe_filename = get_safe_filename(file.filename)
UploadSanitize ==
    /\ data_call.pc = "start"
    /\ data_call.filename # <<>>
    /\ data_call' = [data_call EXCEPT
                        !.pc = "named",
                        !.safe_filename = get_safe_filename_str(data_call.filename)]
    /\ UNCHANGED outsideData

\* upload_file: file_path = UPLOAD_DIR / file_id / safe_filename
UploadFilePath ==
    /\ data_call.pc = "named"
    /\ data_call' = [data_call EXCEPT
                        !.pc = "stored",
                        !.file_path = truediv(upload_directory, data_call.safe_filename)]
    /\ UNCHANGED outsideData

NextName == CallGetSafeFilename \/ UploadNoFilename \/ UploadSanitize \/ UploadFilePath

SpecName == InitName /\ [][NextName]_vars


(* ------------------- gui.py: FileForgeApp conversion run -------------- *)
MaxGuiFiles == 2

MaxRuns == 2

outsideGui == <<coreVars, apiVars, callVars, serverVars>>

\* A queued file: what the core converter will make of it (a success
\* result, a Failure result, or an exception) and FileItem.status.
FileItem(outcome, status) == [outcome |-> outcome, status |-> status]

GuiOutcomes == {"success", "failure", "raises"}

\* Variant of the button in which a release always runs the command.
command_runs_Always(disabled) == TRUE

\* ModernButton._on_release: the command runs unless the button is disabled.
command_runs(disabled) == ~disabled

\* FileListView.get_pending_files, as indexes into the list.
get_pending_files(files) ==
    SelectSeq([i \in 1..Len(files) |-> i], LAMBDA i : files[i].status = "pending")

\* The locals of one _run_conversion thread.
ConversionThread(files) ==
    [files |-> files, idx |-> 1, success_count |-> 0, error_count |-> 0]

\* Callbacks handed to root.after(0, ...), in the order they were queued.
StatusEvent(file, status) == [kind |-> "status", file |-> file, status |-> status]

ProgressEvent(current) == [kind |-> "progress", file |-> current, status |-> "converting"]

CompleteEvent(success, errors) ==
    [kind |-> "complete", success |-> success, errors |-> errors]

RemoveAt(s, i) == SubSeq(s, 1, i - 1) \o SubSeq(s, i + 1, Len(s))

InitGui ==
    /\ \E n \in 0..MaxGuiFiles, output_format, available \in BOOLEAN :
          \E outcomes \in [1..n -> GuiOutcomes] :
             gui_app = [files |-> [i \in 1..n |-> FileItem(outcomes[i], "pending")],
                        output_format |-> output_format,
                        converters_available |-> available,
                        is_converting |-> FALSE,
                        cancel_requested |-> FALSE,
                        ui_enabled |-> TRUE,
                        cancel_shown |-> FALSE,
                        threads |-> <<>>,
                        after |-> <<>>,
                        started |-> 0,
                        completed |-> 0,
                        status |-> "Ready",
                        dialogs |-> 0]
    /\ CoreIdle /\ PipeIdle /\ PdfIdle /\ ImageIdle /\ DataIdle
    /\ file_registry = EmptyMap /\ progress_registry = EmptyMap
    /\ uploads = EmptyMap /\ outputs = EmptyMap
    /\ next_id = 1 /\ requests = 0 /\ response = NoResponse
    /\ ServerIdle

\* A click on the Convert button: _start_conversion.
StartConversion ==
    /\ command_runs(~gui_app.ui_enabled)
    /\ gui_app.started < MaxRuns
    /\ gui_app.dialogs < MaxRuns
    /\ LET files == get_pending_files(gui_app.files)
       IN  gui_app' =
              IF files = <<>> \/ ~gui_app.output_format \/ ~gui_app.converters_available
              THEN [gui_app EXCEPT !.dialogs = gui_app.dialogs + 1]
              ELSE [gui_app EXCEPT
                       !.ui_enabled = FALSE,
                       !.is_converting = TRUE,
                       !.cancel_requested = FALSE,
                       !.cancel_shown = TRUE,
                       !.threads = Append(gui_app.threads, ConversionThread(files)),
                       !.started = gui_app.started + 1]
    /\ UNCHANGED outsideGui

\* A click on the Cancel button: _cancel_conversion.
CancelConversion ==
    /\ gui_app.cancel_shown
    /\ gui_app.is_converting
    /\ ~gui_app.cancel_requested
    /\ gui_app' = [gui_app EXCEPT !.cancel_requested = TRUE, !.status = "Cancelling..."]
    /\ UNCHANGED outsideGui

\* _run_conversion: one iteration of the loop over files, or the break
\* when cancellation was requested.
RunConversionFile ==
    /\ \E t \in DOMAIN gui_app.threads :
          LET thread == gui_app.threads[t]
          IN  /\ thread.idx <= Len(thread.files)
              /\ IF gui_app.cancel_requested
                 THEN gui_app' = [gui_app EXCEPT !.threads[t].idx = Len(thread.files) + 1]
                 ELSE LET file == thread.files[thread.idx]
                          ok == gui_app.files[file].outcome = "success"
                      IN  gui_app' =
                             [gui_app EXCEPT
                                 !.threads[t].idx = thread.idx + 1,
                                 !.threads[t].success_count =
                                     thread.success_count + (IF ok THEN 1 ELSE 0),
                                 !.threads[t].error_count =
                                     thread.error_count + (IF ok THEN 0 ELSE 1),
                                 !.after = gui_app.after \o
                                     <<StatusEvent(file, "converting"),
                                       ProgressEvent(thread.idx),
                                       StatusEvent(file, IF ok THEN "success" ELSE "error")>>]
    /\ UNCHANGED outsideGui

\* _run_conversion after the loop: queue _conversion_complete; the thread ends.
RunConversionEnd ==
    /\ \E t \in DOMAIN gui_app.threads :
          LET thread == gui_app.threads[t]
          IN  /\ thread.idx > Len(thread.files)
              /\ gui_app' =
                    [gui_app EXCEPT
                        !.threads = RemoveAt(gui_app.threads, t),
                        !.after = Append(gui_app.after,
                                         CompleteEvent(thread.success_count,
                                                       thread.error_count))]
    /\ UNCHANGED outsideGui

\* The Tk main loop runs the oldest queued callback: update_file_status,
\* _update_progress, or _conversion_complete with _set_ui_state(True).
MainLoopCallback ==
    /\ gui_app.after # <<>>
    /\ LET event == Head(gui_app.after)
           rest == [gui_app EXCEPT !.after = Tail(gui_app.after)]
       IN  gui_app' =
              CASE event.kind = "status" ->
                     [rest EXCEPT !.files[event.file].status = event.status]
                [] event.kind = "progress" ->
                     [rest EXCEPT !.status = "Converting"]
                [] event.kind = "complete" ->
                     [rest EXCEPT
                         !.is_converting = FALSE,
                         !.cancel_shown = FALSE,
                         !.ui_enabled = TRUE,
                         !.completed = gui_app.completed + 1,
                         !.status = IF gui_app.cancel_requested THEN "Conversion cancelled"
                                    ELSE IF event.errors = 0 THEN "Completed"
                                    ELSE "Completed with errors"]
    /\ UNCHANGED outsideGui

NextGui ==
    \/ StartConversion
    \/ CancelConversion
    \/ RunConversionFile
    \/ RunConversionEnd
    \/ MainLoopCallback

\* The background thread runs and every core conversion returns or raises;
\* the Tk main loop keeps running queued callbacks.
SpecGui ==
    /\ InitGui
    /\ [][NextGui]_vars
    /\ WF_vars(RunConversionFile)
    /\ WF_vars(RunConversionEnd)
    /\ WF_vars(MainLoopCallback)


(* ============================ claims ================================== *)
RECURSIVE CountSucceeded(_)
CountSucceeded(rs) ==
    IF rs = <<>> THEN 0
    ELSE (IF Head(rs).status \in {SUCCESS, PARTIAL_SUCCESS} THEN 1 ELSE 0)
         + CountSucceeded(Tail(rs))

RECURSIVE SumBytesRead(_)
SumBytesRead(rs) ==
    IF rs = <<>> THEN 0
    ELSE Head(rs).statistics.total_bytes_read + SumBytesRead(Tail(rs))

RECURSIVE SumBytesWritten(_)
SumBytesWritten(rs) ==
    IF rs = <<>> THEN 0
    ELSE Head(rs).statistics.total_bytes_written + SumBytesWritten(Tail(rs))

\* C1: a batch conversion attempts every input and returns one result per
\* input, in input order; the failure of a single input (missing file,
\* unsupported input extension, input already in the target format, pipeline
\* error) never aborts the batch and never escapes as an exception.
C1_BatchNeverAborts ==
    /\ batch_pc # "raised"
    /\ batch_pc = "done" =>
          /\ Len(batch_result.results) = Len(batch_call.inputs)
          /\ \A i \in DOMAIN batch_call.inputs :
                batch_result.results[i].input_path = batch_call.inputs[i]

\* The conversion-domain errors of a dispatcher call.
SameFormat(inp, outp) == Lower(inp.ext) = Lower(outp.ext)

DomainError(inp, outp) ==
    \/ get_format_category(inp) = None
    \/ FileState(inp) # "ok"
    \/ SameFormat(inp, outp)
    \/ get_format_category(inp) = "image" /\ Lower(outp.ext) \notin ImageFormat
    \/ get_format_category(inp) = "document" /\ Lower(outp.ext) \notin {"txt", "png", "jpg"}
    \/ get_format_category(inp) = "data" /\ Lower(outp.ext) \notin DataFormat

\* C2: ConverterFactory.convert never raises for a conversion-domain error
\* (unknown or unsupported input format, incompatible output format,
\* same-format conversion, missing file, corrupt input): each is returned as
\* a ConversionResult with status Failure and an error message.
C2_DispatcherNeverRaises ==
    call.outcome # NoOutcome =>
        /\ call.outcome.kind = "return"
        /\ DomainError(call.input, call.output) =>
              /\ call.outcome.result.status = FAILURE
              /\ call.outcome.result.error_message # ""

\* C4: converting a file to its own format is rejected, for every category,
\* with a Failure whose message says that source and target formats are the
\* same, and nothing is written.
C4_SameFormatRejected ==
    (call.outcome # NoOutcome /\ SameFormat(call.input, call.output)
       /\ get_format_category(call.input) # None /\ FileState(call.input) = "ok") =>
        /\ call.outcome.kind = "return"
        /\ call.outcome.result.status = FAILURE
        /\ call.outcome.result.error_message = "Source and target formats are the same"
        /\ call.outcome.files = {}

\* C5: the overall status of a BatchConversionResult is Skipped iff it holds
\* no results, Success iff it is non-empty and every result succeeded,
\* PartialSuccess iff some but not all results succeeded, Failure iff it is
\* non-empty and no result succeeded; exactly one of the four holds.
C5_BatchStatusByCounts ==
    LET n == Len(batch_result.results)
        k == CountSucceeded(batch_result.results)
        st == BatchStatus(batch_result)
    IN  /\ st \in ConversionStatus
        /\ (st = SKIPPED) <=> (n = 0)
        /\ (st = SUCCESS) <=> (n > 0 /\ k = n)
        /\ (st = PARTIAL_SUCCESS) <=> (0 < k /\ k < n)
        /\ (st = FAILURE) <=> (n > 0 /\ k = 0)

C5_Witness ==
    /\ Len(batch_result.results) >= 2
    /\ BatchStatus(batch_result) = PARTIAL_SUCCESS

\* C6: after any sequence of add_result calls files_processed is the number
\* of results and equals succeeded + failed + skipped, the byte totals are
\* the sums of the per-result values, and every result a single-file
\* convert returned, success or failure, has files_processed = 1.
C6_StatisticsAreSums ==
    LET st == batch_result.statistics
        rs == batch_result.results
    IN  /\ st.files_processed = Len(rs)
        /\ st.files_processed = st.files_succeeded + st.files_failed + st.files_skipped
        /\ st.total_bytes_read = SumBytesRead(rs)
        /\ st.total_bytes_written = SumBytesWritten(rs)
        /\ last_result # NoResult => last_result.statistics.files_processed = 1

C6_Witness ==
    /\ Len(batch_result.results) >= 3
    /\ batch_result.statistics.files_skipped >= 1
    /\ batch_result.statistics.files_failed >= 1
    /\ batch_result.statistics.total_bytes_written > 0
    /\ last_result # NoResult
    /\ last_result.status = FAILURE

\* C3: for every registered input format f and every output format g: when
\* g is in FORMAT_COMPATIBILITY[f] the convert request passes validation and
\* the pipeline selected for the entry accepts g (it does not reject g as an
\* unsupported output format); when g is not in FORMAT_COMPATIBILITY[f] and
\* g # f the request is rejected with "Cannot convert" before any pipeline
\* runs, and no output directory, progress record or registry entry is made.
C3_FormatCompatibility ==
    [][(/\ response'.op = "convert"
        /\ requests' = requests + 1
        /\ response'.file_id \in DOMAIN file_registry
        /\ AtPath(file_registry[response'.file_id].path).exists) =>
          LET f == file_registry[response'.file_id].format
              g == response'.output_format
          IN  /\ g \in get_compatible_formats(f) =>
                    /\ response'.detail # "Cannot convert"
                    /\ response'.detail # "Conversion failed: Unsupported output format"
              /\ (g \notin get_compatible_formats(f) /\ g # f) =>
                    /\ response'.status = 400
                    /\ response'.detail = "Cannot convert"
                    /\ UNCHANGED <<outputs, progress_registry, file_registry>>]_vars

\* The messages of the errors raised for an exceeded cap.
ResourceLimitMessages ==
    {"Conversion failed: Image dimensions exceed maximum", "File size exceeds maximum",
     "Data rows exceed maximum", "Data columns exceed maximum", "PDF exceeds maximum pages"}

\* The input of the call is over a cap of the pipeline called with it.
ExceedsCap(c) ==
    /\ c.input.exists
    /\ \/ /\ c.pipeline = IMAGE
          /\ c.output_format \in IMAGE_SUPPORTED_OUTPUT_FORMATS
          /\ c.input.content.kind = "image"
          /\ c.input.content.width > 10000 \/ c.input.content.height > 10000
       \/ /\ c.pipeline = DOCUMENT
          /\ c.output_format \in DOCUMENT_SUPPORTED_OUTPUT_FORMATS
          /\ c.input.path.ext = "pdf"
          /\ c.input.content.kind = "pdf"
          /\ c.input.content.pages > 500
       \/ /\ c.pipeline = DATA
          /\ c.output_format \in DATA_SUPPORTED_OUTPUT_FORMATS
          /\ c.input.path.ext \in DATA_SUPPORTED_INPUT_FORMATS
          /\ \/ c.input.content.size > 100 * 1024 * 1024
             \/ /\ c.input.content.kind = "table"
                /\ c.input.content.rows > 1000000 \/ c.input.content.columns > 1000

C8_PageRangeMarkers ==
    (pdf_call.done /\ pdf_call.page_range # NoRange /\ pdf_call.outcome.status = SUCCESS) =>
        LET lo == IF pdf_call.page_range[1] > 0 THEN pdf_call.page_range[1] ELSE 0
            hi == IF pdf_call.page_range[2] < Len(pdf_call.pages)
                  THEN pdf_call.page_range[2] ELSE Len(pdf_call.pages)
            n == IF hi > lo THEN hi - lo ELSE 0
        IN  /\ Len(pdf_call.outcome.parts) = n
            /\ \A k \in 1..n : pdf_call.outcome.parts[k].marker = lo + k

\* The alpha of pixel i of an image, 255 where the mode has no alpha.
AlphaAt(img, i) ==
    CASE img.mode \in {"RGBA", "LA"} -> img.pixels[i][Len(img.pixels[i])]
      [] img.mode = "P" -> IF img.pixels[i][1] = img.transparency THEN 0 ELSE 255
      [] OTHER -> 255

CarriesTransparency(img) ==
    img.mode \in {"RGBA", "LA"} \/ (img.mode = "P" /\ img.transparency # -1)

\* C9: an image whose mode carries transparency (RGBA, LA, palette with
\* transparency), converted to JPEG or BMP, is saved as an opaque RGB image
\* whose pixel is the configured background colour (white when none is
\* configured) wherever the source pixel was fully transparent; converted
\* to PNG or WEBP it is saved with the alpha of every pixel unchanged.
C9_TransparencyFlattened ==
    image_call.done =>
        /\ (image_call.output_format \in {"jpg", "jpeg", "bmp"}
            /\ CarriesTransparency(image_call.image)) =>
              /\ image_call.saved.mode = "RGB"
              /\ \A i \in DOMAIN image_call.image.pixels :
                    AlphaAt(image_call.image, i) = 0 =>
                        image_call.saved.pixels[i] =
                            IF image_call.background_color = <<>>
                            THEN <<255, 255, 255>>
                            ELSE image_call.background_color
        /\ image_call.output_format \in {"png", "webp"} =>
              \A i \in DOMAIN image_call.image.pixels :
                  AlphaAt(image_call.saved, i) = AlphaAt(image_call.image, i)

C9_Witness ==
    /\ image_call.done
    /\ image_call.impl = "backend"
    /\ image_call.output_format = "jpg"
    /\ image_call.image.mode = "LA"
    /\ image_call.background_color = <<0, 0, 255>>
    /\ \E i \in DOMAIN image_call.image.pixels :
          /\ AlphaAt(image_call.image, i) = 0
          /\ image_call.saved.pixels[i] = <<0, 0, 255>>

\* The table the claimed pipeline gives: the requested steps in the order
\* rows, columns, strip, rename, and then, when a selection is given, the
\* requested columns that exist, in the requested order, and nothing else.
ClaimedTransform(t, o) ==
    LET t1 == IF o.drop_empty_rows THEN dropna_rows(t) ELSE t
        t2 == IF o.drop_empty_columns THEN dropna_columns(t1) ELSE t1
        t3 == IF o.strip_whitespace THEN strip_whitespace(t2) ELSE t2
        t4 == IF DOMAIN o.rename_columns # {} THEN rename(t3, o.rename_columns) ELSE t3
        Exists(c) == \E j \in DOMAIN t4.columns : t4.columns[j] = c
    IN  IF o.columns = <<>> THEN t4
        ELSE TakeColumns(t4, PositionsOfAll(t4.columns, SelectSeq(o.columns, Exists)))

\* C10: the transform applies the requested steps in the fixed order drop
\* empty rows, drop empty columns, strip whitespace, rename columns, column
\* projection; the projection yields exactly the requested columns that
\* exist after renaming, in the requested order, and absent requested
\* columns are ignored without an error.
C10_TransformOrderAndProjection ==
    data_call.done =>
        data_call.result = ClaimedTransform(data_call.table, data_call.options)

\* The shape of a parsed document, as the claim names the shapes.
IsArrayOfObjects(d) == d.kind = "array" /\ AllOfKind(ValuesOf(d), "object")

IsObjectOf(d, kind) ==
    d.kind = "object" /\ d.members # <<>> /\ AllOfKind(ValuesOf(d), kind)

\* C11: reading JSON without an explicit orientation, an array of objects
\* gives one row per object, an object whose values are arrays one column per
\* key, an object whose values are objects one row per outer key, a flat
\* object a single row, and a top-level value that is neither object nor
\* array fails; with an explicit orientation the table is the one read_json
\* gives for that orientation.
C11_JsonShapes ==
    data_call.done =>
        LET d == data_call.document
            f == data_call.frame
        IN  /\ (data_call.orient = NoOrient /\ f.status = "ok") =>
                  /\ IsArrayOfObjects(d) => Len(f.rows) = Len(d.members)
                  /\ IsObjectOf(d, "array") => f.columns = KeysOf(d)
                  /\ IsObjectOf(d, "object") => f.index = KeysOf(d)
                  /\ IsObjectOf(d, "scalar") =>
                        Len(f.rows) = 1 /\ f.columns = KeysOf(d)
            /\ d.kind \in {"scalar", "null"} => f.status # "ok"
            /\ (data_call.orient # NoOrient /\ d.kind \in {"array", "object"}
                /\ f.status = "ok") => f = read_json(d, data_call.orient)

\* An option value of the call is outside its contract.
OutOfContract(o) ==
    \/ o.kind = "image" /\ o.quality_is_int /\ (o.quality < 1 \/ o.quality > 100)
    \/ \E side \in {o.width, o.height, o.scale} : side # <<>> /\ side[1] <= 0
    \/ o.resize # <<>> /\ \E i \in 1..2 : o.resize[i] <= 0 \/ o.resize[i] > 10000
    \/ o.kind = "pdf" /\ o.impl = "core" /\ (o.image_dpi < 72 \/ o.image_dpi > 600)
    \/ o.page_range # <<>> /\ (o.page_range[1] < 0 \/ o.page_range[2] < o.page_range[1])

\* C12: a call whose options hold a quality outside [1,100], a non-positive
\* or over-limit resize side, a non-positive scale, a DPI outside [72,600] or
\* a page range with start < 0 or end < start is rejected with an argument
\* error before the input is loaded and without output; no such value is
\* replaced by another one.
C12_OptionsRejected ==
    (pipe_call.called /\ OutOfContract(pipe_call.options)) =>
        /\ pipe_call.outcome.exc = "ValueError"
        /\ ~pipe_call.outcome.loaded
        /\ ~pipe_call.outcome.written

\* The size the claim states for every mode but "only one of width and
\* height"; TRUE where the claim says nothing.
ResizeModes(c) ==
    LET o == c.options
        w == c.size[1]
        h == c.size[2]
    IN  /\ o.scale # <<>> =>
              c.new_size = <<(w * o.scale[1]) \div o.scale[2], (h * o.scale[1]) \div o.scale[2]>>
        /\ (o.scale = <<>> /\ o.width # <<>> /\ o.height # <<>>) =>
              IF o.preserve_aspect_ratio
              THEN /\ c.new_size[1] <= o.width[1] /\ c.new_size[2] <= o.height[1]
                   /\ c.new_size[1] = o.width[1] \/ c.new_size[2] = o.height[1]
              ELSE c.new_size = <<o.width[1], o.height[1]>>
        /\ (o.scale = <<>> /\ o.width = <<>> /\ o.height = <<>>) => c.new_size = c.size

\* The other side derived from the aspect ratio when only one is given.
DerivedFromAspect(c) ==
    LET o == c.options
    IN  /\ (o.width # <<>> /\ o.height = <<>>) =>
              c.new_size = <<o.width[1], (c.size[2] * o.width[1]) \div c.size[1]>>
        /\ (o.width = <<>> /\ o.height # <<>>) =>
              c.new_size = <<(c.size[1] * o.height[1]) \div c.size[2], o.height[1]>>

\* C13 as stated: scale takes precedence; width and height fit within the
\* bounds keeping the aspect ratio, or give exactly width x height when
\* preserve_aspect_ratio is false; with only one of width and height the
\* other is derived from the aspect ratio; with none the size is unchanged.
C13_ResizeModes_Original ==
    image_call.done =>
        /\ ResizeModes(image_call)
        /\ image_call.options.scale = <<>> => DerivedFromAspect(image_call)

\* C13, amended: as stated, except that with only one of width and height
\* the other is derived from the aspect ratio only when preserve_aspect_ratio
\* is true; when it is false the other side keeps its original value.
C13_ResizeModes ==
    image_call.done =>
        LET o == image_call.options
        IN  /\ ResizeModes(image_call)
            /\ (o.scale = <<>> /\ o.preserve_aspect_ratio) => DerivedFromAspect(image_call)
            /\ (o.scale = <<>> /\ ~o.preserve_aspect_ratio) =>
                  /\ o.width = <<>> => image_call.new_size[1] = image_call.size[1]
                  /\ o.height = <<>> => image_call.new_size[2] = image_call.size[2]
                  /\ o.width # <<>> => image_call.new_size[1] = o.width[1]
                  /\ o.height # <<>> => image_call.new_size[2] = o.height[1]

C13_Witness ==
    /\ image_call.done
    /\ image_call.status = SUCCESS
    /\ image_call.options.scale = <<>>
    /\ ~image_call.options.preserve_aspect_ratio
    /\ image_call.size = <<2, 4>>
    /\ image_call.options.width = <<1>>
    /\ image_call.options.height = <<>>
    /\ image_call.new_size = <<1, 4>>

\* C14: the percent stored for a file is within [0,100] in every state; a
\* call that reports a percent stores 0 for a value below 0, 100 for a value
\* above 100 and the value itself otherwise; a call that gives no percent
\* leaves the stored percent as it was.
C14_ProgressClamped ==
    /\ [](\A id \in DOMAIN progress_registry :
             progress_registry[id].progress \in 0..100)
    /\ [][\A id \in DOMAIN progress_registry \cap DOMAIN progress_registry' :
             IF response'.op \in {"update_progress", "update"} /\ response'.given
             THEN progress_registry'[id].progress =
                      IF response'.percent < 0 THEN 0
                      ELSE IF response'.percent > 100 THEN 100
                      ELSE response'.percent
             ELSE response'.op = "update" =>
                      progress_registry'[id].progress = progress_registry[id].progress]_vars

C14_Witness ==
    /\ response.op = "update_progress"
    /\ response.percent > 100
    /\ 1 \in DOMAIN progress_registry
    /\ progress_registry[1].progress = 100
    /\ progress_registry[1].status = "failed"

\* The embedded images of the pages a run processes, counted from its input.
RECURSIVE ImagesIn(_, _, _)
ImagesIn(run, lo, hi) ==
    IF lo >= hi THEN 0
    ELSE run.images[(lo % MaxPages) + 1] + ImagesIn(run, lo + 1, hi)

ExpectedImages(run) ==
    LET lo == IF run.page_range = <<>> THEN 0
              ELSE IF run.page_range[1] > 0 THEN run.page_range[1] ELSE 0
        hi == IF run.page_range = <<>> \/ run.page_range[2] > run.input.content.pages
              THEN run.input.content.pages ELSE run.page_range[2]
    IN  ImagesIn(run, lo, hi)

\* C15: a successful PDF image extraction has made the output directory and
\* returns it; the directory holds one file per extracted image, under
\* pairwise distinct names made of page number and image index, and exactly
\* one placeholder file when no image was extracted, so it is never empty.
C15_ImageDirectory ==
    (pdf_call.op = "pdf_images" /\ pdf_call.pc = "Done") =>
        /\ pdf_call.dir_made
        /\ pdf_call.files # <<>>
        /\ \A i, j \in DOMAIN pdf_call.files :
              i # j => pdf_call.files[i] # pdf_call.files[j]
        /\ IF ExpectedImages(pdf_call) = 0
           THEN pdf_call.files = <<<<0, 0>>>>
           ELSE /\ Len(pdf_call.files) = ExpectedImages(pdf_call)
                /\ \A i \in DOMAIN pdf_call.files :
                      /\ pdf_call.files[i][1] \in 1..pdf_call.input.content.pages
                      /\ pdf_call.files[i][2] \in
                            1..pdf_call.images[((pdf_call.files[i][1] - 1) % MaxPages) + 1]

C15_Witness ==
    /\ pdf_call.op = "pdf_images" /\ pdf_call.pc = "Done"
    /\ pdf_call.input.content.pages = MaxPages
    /\ pdf_call.page_range = NoRange
    /\ pdf_call.page_num = MaxPages
    /\ \A k \in 1..MaxPages : pdf_call.images[k] = 0
    /\ pdf_call.files = <<<<0, 0>>>>

\* The positions in the log of the events of one kind.
Where(log, e) == {i \in DOMAIN log : log[i].e = e}

PhaseRank(pc) ==
    CASE pc = "Start" -> 0
      [] pc = "Opened" -> 1
      [] pc = "Validating" -> 2
      [] pc = "Processing" -> 3
      [] pc = "Finalizing" -> 4
      [] OTHER -> 5

Percents(log) ==
    LET IsProgress(ev) == ev.e = "progress"
        reports == SelectSeq(log, IsProgress)
    IN  [i \in DOMAIN reports |-> reports[i].n]

\* C20: within one conversion call the reported percentages never decrease;
\* the image pipeline reports 10, 30, 60 and 100 in that order; in every
\* pipeline 100 is reported after the output was written, and a call that
\* fails has not reported 100.
C20_ProgressMilestones ==
    LET log == pdf_call.log
        p == Percents(log)
    IN  /\ \A i, j \in DOMAIN p : i < j => p[i] <= p[j]
        /\ pdf_call.op = "image" =>
              /\ p = SubSeq(<<10, 30, 60, 100>>, 1, Len(p))
              /\ pdf_call.pc = "Done" => p = <<10, 30, 60, 100>>
        /\ \A i \in DOMAIN log :
              (log[i].e = "progress" /\ log[i].n = 100) =>
                  /\ \E w \in 1..(i - 1) : log[w].e = "write"
                  /\ \A w \in DOMAIN log : log[w].e = "write" => w < i
        /\ pdf_call.pc = "Failed" => \A i \in DOMAIN p : p[i] # 100
        /\ pdf_call.pc = "Done" => p[Len(p)] = 100

C20_Witness ==
    /\ pdf_call.op = "image" /\ pdf_call.pc = "Done"
    /\ pdf_call.resize = <<2, 2>>
    /\ pdf_call.output_format = "jpg"
    /\ Percents(pdf_call.log) = <<10, 30, 60, 100>>
    /\ pdf_call.log[Len(pdf_call.log) - 1] = [e |-> "write", n |-> 0]

\* C16: a CSV read whose decoding fails under the declared encoding is
\* retried exactly once with latin-1 and the conversion goes on with the
\* retried table; a failing retry fails the conversion; a first read that
\* decodes is the only read and uses the declared encoding.
C16_CsvLatin1Retry ==
    data_call.pc \in {"Done", "Failed"} =>
        IF decodes(data_call.bytes, data_call.encoding)
        THEN /\ data_call.reads = <<data_call.encoding>>
             /\ data_call.pc = "Done" => data_call.used = data_call.encoding
        ELSE \/ /\ data_call.reads = <<data_call.encoding, "latin-1">>
                /\ IF parse_error(data_call.structure) = "None"
                   THEN data_call.pc = "Done" /\ data_call.used = "latin-1"
                   ELSE data_call.pc = "Failed"
             \/ /\ data_call.reads = <<data_call.encoding>>
                /\ data_call.raised # <<"UnicodeDecodeError">>
                /\ data_call.pc = "Failed"

\* How many of the conversions carried out ended with the given status.
Ended(converted, status) ==
    Cardinality({i \in DOMAIN converted : converted[i] = status})

\* C17: when the convert command has gone through its input files it exits
\* with 0 if every conversion succeeded, with 1 if every conversion failed
\* and with 2 if some but not all failed.
C17_ExitCodes ==
    pipe_call.pc = "Finished" =>
        LET ok == Ended(pipe_call.converted, SUCCESS)
            bad == Ended(pipe_call.converted, FAILURE)
        IN  /\ (bad = 0) => pipe_call.exit = 0
            /\ (bad > 0 /\ ok = 0) => pipe_call.exit = 1
            /\ (bad > 0 /\ ok > 0) => pipe_call.exit = 2

\* The category the claim gives a stored name: the extension table first,
\* the MIME table only for an extension the first table does not have.
ClaimedCategory(file_path) ==
    IF Lower(file_path.ext) \in DOMAIN EXTENSION_TO_CATEGORY
    THEN EXTENSION_TO_CATEGORY[Lower(file_path.ext)]
    ELSE IF guess_type(file_path) \in DOMAIN MIME_TO_EXTENSION
    THEN EXTENSION_TO_CATEGORY[MIME_TO_EXTENSION[guess_type(file_path)]]
    ELSE UNKNOWN

\* Every upload is classified as claimed; an upload classified unknown
\* leaves no registry entry and no stored copy.
UnknownRejected ==
    [][(response'.op = "upload" /\ requests' = requests + 1) =>
          /\ \A id \in DOMAIN file_registry' \ DOMAIN file_registry :
                /\ file_registry'[id].category = ClaimedCategory(file_registry'[id].path.name)
                /\ file_registry'[id].category # UNKNOWN
          /\ response'.detail = "Unsupported file type" =>
                UNCHANGED <<file_registry, uploads>>]_vars

\* No conversion starts for a file of unknown category.
UnknownNeverConverted ==
    [][(response'.op = "convert" /\ progress_registry' # progress_registry) =>
          /\ response'.file_id \in DOMAIN file_registry
          /\ file_registry[response'.file_id].category # UNKNOWN]_vars

\* C19: classification takes the category from the extension table, from
\* the MIME table only for an unknown extension, and is unknown otherwise;
\* upload never registers a file of unknown category and removes its
\* stored copy, so no conversion starts for such a file; every registered
\* file has a format with an entry in FORMAT_COMPATIBILITY.
C19_RegisteredFilesConvertible ==
    /\ UnknownRejected
    /\ UnknownNeverConverted
    /\ [](\A id \in DOMAIN file_registry :
             /\ file_registry[id].category # UNKNOWN
             /\ file_registry[id].format \in DOMAIN FORMAT_COMPATIBILITY)

\* C21: the answer to a progress poll for a handle carries the fields last
\* recorded for its conversion; 'completed' comes with progress 100 and an
\* output_file_id, 'failed' with an error message; a registered handle
\* without a progress record is 'pending' at 0; a handle in neither
\* registry gets 404.
C21_ProgressPoll ==
    /\ [](\A id \in 1..MaxFiles :
            LET r == get_progress(id)
            IN  /\ id \in DOMAIN progress_registry =>
                      r.status = 200 /\ r.body = progress_registry[id]
                /\ r.body.status = "completed" =>
                      r.status = 200 /\ r.body.progress = 100 /\ r.body.output_file_id # 0
                /\ r.body.status = "failed" => r.status = 200 /\ r.body.error # None
                /\ (id \in DOMAIN file_registry /\ id \notin DOMAIN progress_registry) =>
                      /\ r.status = 200
                      /\ r.body.status = "pending" /\ r.body.progress = 0
                      /\ r.body.output_file_id = 0
                /\ (id \notin DOMAIN file_registry /\ id \notin DOMAIN progress_registry) =>
                      r.status = 404)
    /\ [][(convert_call # Idle /\ convert_call' # convert_call
           /\ convert_call.file_id \in DOMAIN progress_registry') =>
             LET polled == [body |-> progress_registry'[convert_call.file_id]]
             IN  /\ convert_call.pc = "init" =>
                       polled.body.status = "processing" /\ polled.body.progress = 0
                 /\ (convert_call.pc = "pipeline" /\ convert_call'.reports # convert_call.reports) =>
                       /\ polled.body.progress = 50
                       /\ polled.body.message = "Converting"
                       /\ polled.body.status = "processing"
                 /\ (convert_call.pc = "register" /\ convert_call' = Idle) =>
                       /\ polled.body.status = "completed"
                       /\ polled.body.output_file_id = convert_call.output_file_id
                 /\ convert_call.pc = "failed" =>
                       /\ polled.body.status = "failed"
                       /\ polled.body.progress = 0]_vars

C21_Witness ==
    /\ response.op = "progress" /\ response.status = 200
    /\ response.body.status = "completed"
    /\ response.body.progress = 100
    /\ response.body.output_file_id = 2
    /\ response.file_id = 1
    /\ 2 \in DOMAIN file_registry

\* C23: a sweep removes from the file registry exactly the entries older
\* than FILE_EXPIRY_SECONDS at the time of its scan, and the progress
\* records with the same ids; every younger entry and its progress record
\* stay as they were; the registries change during a sweep only by the
\* sweep, inside its lock section.
C23_ExpirySweep ==
    /\ [][(sweep_call # Idle /\ sweep_call.pc = "pop" /\ sweep_call' = Idle) =>
             LET before == sweep_call.files_then
                 old == {id \in DOMAIN before :
                            sweep_call.current_time - before[id].upload_timestamp
                               > FILE_EXPIRY_SECONDS}
             IN  /\ DOMAIN file_registry' = DOMAIN before \ old
                 /\ \A id \in DOMAIN before \ old : file_registry'[id] = before[id]
                 /\ DOMAIN progress_registry' = DOMAIN sweep_call.progress_then \ old
                 /\ \A id \in DOMAIN sweep_call.progress_then \ old :
                       progress_registry'[id] = sweep_call.progress_then[id]]_vars
    /\ [][(file_registry' # file_registry \/ progress_registry' # progress_registry) =>
             IF sweep_call' # sweep_call
             THEN registry_lock = "sweep" /\ registry_lock' = "sweep"
             ELSE registry_lock = "free"]_vars

C23_Witness ==
    /\ sweep_call # Idle /\ sweep_call.pc = "pop" /\ sweep_call.expired_ids = {}
    /\ DOMAIN sweep_call.files_then = {1, 2}
    /\ DOMAIN sweep_call.progress_then = {1, 2}
    /\ DOMAIN file_registry = {2}
    /\ DOMAIN progress_registry = {2}
    /\ sweep_call.current_time - file_registry[2].upload_timestamp = FILE_EXPIRY_SECONDS

\* C25: whatever the cleanup thread does meanwhile, a convert request whose
\* pipeline returned answers 200, has registered its output and leaves the
\* progress record of its input completed with that output id; a request
\* that answers with an error has registered no output.
C25_ConvertVersusSweep ==
    [][(convert_call # Idle /\ convert_call' = Idle) =>
          /\ convert_call.pipeline = "returned" =>
                /\ response'.status = 200
                /\ convert_call.output_file_id \in DOMAIN file_registry'
                /\ convert_call.file_id \in DOMAIN progress_registry'
                /\ progress_registry'[convert_call.file_id].status = "completed"
                /\ progress_registry'[convert_call.file_id].output_file_id
                      = convert_call.output_file_id
          /\ response'.status # 200 =>
                convert_call.output_file_id \notin DOMAIN file_registry']_vars

\* C30: every progress record with status 'completed' names, as its
\* output_file_id, an entry of the file registry whose source_file_id is
\* the id of the record.
C30_CompletedOutputRegistered ==
    \A id \in DOMAIN progress_registry :
        progress_registry[id].status = "completed" =>
            /\ progress_registry[id].output_file_id \in DOMAIN file_registry
            /\ file_registry[progress_registry[id].output_file_id].source_file_id = id

\* The embedded images the claim wants skipped: those that cannot be
\* decoded and those whose data length differs from the declared size.
ClaimedSkipped(kind) == kind \in {"bad_header", "bad_body", "short", "long"}

\* C22: an embedded image that cannot be decoded, or whose data length does
\* not match its declared size, is skipped: the extraction does not fail
\* because of it, no file is written for it, and every other image the
\* extraction handles, on the same page and on the others, gets its file.
C22_UndecodableImageSkipped ==
    /\ pdf_call.state = "extract" => pdf_call.pc # "Failed"
    /\ (pdf_call.state = "extract" /\ pdf_call.pc = "Done") =>
          /\ \A i \in DOMAIN pdf_call.files : ~ClaimedSkipped(pdf_call.files[i].kind)
          /\ \A p \in DOMAIN pdf_call.pages :
                Cardinality({i \in DOMAIN pdf_call.files : pdf_call.files[i].page = p})
                   = Cardinality({k \in DOMAIN pdf_call.pages[p] :
                                     pdf_call.pages[p][k] \in {"ok", "exact"}})

\* C26: in a batch, distinct input files are written to distinct output
\* paths, so a successful result's output is not overwritten by a later
\* file of the batch, and the output directory ends up with as many files
\* as there are successful results.
C26_BatchOutputsDistinct ==
    (batch_pc = "done"
     /\ \A i, j \in DOMAIN batch_call.inputs :
            i # j => batch_call.inputs[i] # batch_call.inputs[j]) =>
        LET results == batch_result.results
            done == {i \in DOMAIN results : results[i].status = SUCCESS}
        IN  /\ \A i, j \in done : i # j => results[i].output_path # results[j].output_path
            /\ Cardinality(out_files) = Cardinality(done)

\* C27: for every source size and every resize option the validation
\* accepts (positive width, height, scale), the size computed for the resize
\* has both dimensions at least 1 pixel.
C27_TargetSizePositive ==
    image_call.done =>
        /\ image_call.new_size[1] >= 1
        /\ image_call.new_size[2] >= 1

\* C28: the convert command counts a file as successful only if the core
\* conversion of that file returned a success result; a conversion that
\* returned a Failure result is counted as failed and makes the exit code
\* non-zero.
C28_CliCountsResults ==
    /\ pipe_call.stats.successful = Ended(pipe_call.converted, SUCCESS)
    /\ pipe_call.stats.failed = Ended(pipe_call.converted, FAILURE)
    /\ (pipe_call.pc = "Finished" /\ Ended(pipe_call.converted, FAILURE) > 0) =>
          pipe_call.exit # 0

\* C24: get_safe_filename returns, for every input string, a non-empty name
\* with no '/', no '\' and no NUL that is neither '.' nor '..', so the path
\* UPLOAD_DIR/<file_id>/<name> built by upload is a file directly inside
\* that upload's own directory.
C24_SafeFilename ==
    /\ data_call.pc \in {"returned", "named", "stored"} =>
          /\ data_call.safe_filename # <<>>
          /\ \A i \in DOMAIN data_call.safe_filename :
                data_call.safe_filename[i] \notin {"/", "\\", "NUL"}
          /\ data_call.safe_filename \notin {<<".">>, <<".", ".">>}
    /\ data_call.pc = "stored" =>
          /\ Len(data_call.file_path) = Len(upload_directory) + 1
          /\ SubSeq(data_call.file_path, 1, Len(upload_directory)) = upload_directory
          /\ data_call.file_path[Len(data_call.file_path)] = data_call.safe_filename
          /\ data_call.safe_filename # <<".", ".">>

C24_Witness ==
    /\ data_call.pc = "stored"
    /\ data_call.filename = <<".", ".", "/", "a">>
    /\ data_call.safe_filename = <<"_", "a">>
    /\ data_call.file_path = Append(upload_directory, <<"_", "a">>)

\* C29: every run started by the Convert button eventually ends with the
\* completion handler run on the UI thread, which sets is_converting back
\* to false and re-enables the controls, whether the files succeed, fail
\* or the run is cancelled; while a run is active the Convert button is
\* disabled, so at most one run is active at any time.
C29_GuiRunCompletes ==
    /\ [](gui_app.started > gui_app.completed => ~gui_app.ui_enabled)
    /\ [](gui_app.started - gui_app.completed <= 1 /\ Len(gui_app.threads) <= 1)
    /\ [][gui_app.completed' # gui_app.completed =>
            ~gui_app.is_converting' /\ gui_app.ui_enabled']_vars
    /\ \A n \in 1..MaxRuns : (gui_app.started = n) ~> (gui_app.completed = n)

C29_Witness ==
    /\ gui_app.started = 2
    /\ gui_app.completed = 2
    /\ gui_app.status = "Completed with errors"
    /\ ~gui_app.is_converting
    /\ gui_app.ui_enabled
    /\ \E i \in DOMAIN gui_app.files : gui_app.files[i].status = "error"

====
